---- MODULE Spec2Model ----
(***************************************************************************)
(* Discovery / scan state tracker of the npm security scanner.            *)
(*   src/src/discovery/npm-changes.ts  NpmChangesFeed                     *)
(*   src/src/types.ts                  NPMSecurityScanner, CLI commands   *)
(* Strings are sequences of one-character strings, so that the string     *)
(* operations of the code (template formatting, split, lastIndexOf,       *)
(* startsWith) are computed and not assumed.                              *)
(***************************************************************************)
EXTENDS Integers, Sequences, FiniteSets, TLC

VARIABLES
    feed,                   \* the registry's change feed: the log of entries, seq of entry i is i
    seqFile,                \* data/last-sequence.txt
    discFile,               \* data/discovered-packages.txt          (lines; <<>> = absent or empty)
    discNewFile,            \* data/discovered-packages-new.txt
    scanFile,               \* data/scanned-packages.txt
    scanNewFile,            \* data/scanned-packages-new.txt
    dpc,                    \* position of the running getLatestChanges: idle / walked / saved
    state,                  \* this.state of the NpmChangesFeed of the discovery run
    newDiscoveredPackages,  \* local of getLatestChanges
    packages,               \* local of getLatestChanges (values of packagesToProcess)
    drun,                   \* what the discovery run loaded and saw (history of the current run)
    dhist,                  \* history across discovery runs
    spc,                    \* position of the running scan-pending command
    pending,                \* result of getPendingScans held by the scan-pending command
    srun,                   \* history of the current scan-pending run
    shist,                  \* history across scan-pending runs
    retry,                  \* the running markPackagesScannedWithRetry call
    fn,                     \* a call of a pure function: its name, arguments and result
    batch                   \* the running scanBatch or scanPackage call of NPMSecurityScanner

dvars == <<dpc, state, newDiscoveredPackages, packages, drun, dhist>>
svars == <<spc, pending, srun, shist>>
files == <<seqFile, discFile, discNewFile, scanFile, scanNewFile>>
calls == <<retry, fn, batch>>
vars == <<feed, seqFile, discFile, discNewFile, scanFile, scanNewFile,
          dpc, state, newDiscoveredPackages, packages, drun, dhist,
          spc, pending, srun, shist, retry, fn, batch>>

-----------------------------------------------------------------------------
(* Bounds of the model *)

MaxFeed == 3                \* entries the change feed can hold

MAX_PACKAGES_PER_RUN == 2   \* npm-changes.ts:10 (10000 in the source, scaled down)

FeedLimitAboveCap == MAX_PACKAGES_PER_RUN + 1   \* a page longer than the cap

FeedLimit == MAX_PACKAGES_PER_RUN   \* params.limit, npm-changes.ts:124: the same number as the cap

-----------------------------------------------------------------------------
(* Strings *)

NameA == <<"a">>
NameB == <<"@", "s", "/", "b">>
DesignId == <<"_", "d", "e", "s", "i", "g", "n", "/", "x">>
DesignPrefix == <<"_", "d", "e", "s", "i", "g", "n", "/">>
V1 == <<"1">>
V2 == <<"2">>
Undefined == <<"u", "n", "d", "e", "f", "i", "n", "e", "d">>
Missing == <<>>             \* a falsy string field (undefined, null or '')

Names == {NameA, NameB}

Max(a, b) == IF a >= b THEN a ELSE b

Min(a, b) == IF a <= b THEN a ELSE b

StartsWith(s, p) == Len(s) >= Len(p) /\ SubSeq(s, 1, Len(p)) = p

\* `${name}@${version}`
Format(name, version) == name \o <<"@">> \o version

Elems(s) == {s[i] : i \in DOMAIN s}

NoDup(s) == \A i, j \in DOMAIN s : i # j => s[i] # s[j]

\* new Set(lines): the distinct lines in order of first occurrence
RECURSIVE Distinct(_)
Distinct(s) ==
    IF s = <<>> THEN <<>>
    ELSE LET r == Distinct(SubSeq(s, 1, Len(s) - 1))
         IN  IF s[Len(s)] \in Elems(r) THEN r ELSE Append(r, s[Len(s)])

\* packagesData.trim().split('\n').filter(line => line.trim())
RECURSIVE NonBlank(_)
NonBlank(s) ==
    IF s = <<>> THEN <<>>
    ELSE IF Head(s) = <<>> THEN NonBlank(Tail(s))
    ELSE <<Head(s)>> \o NonBlank(Tail(s))

-----------------------------------------------------------------------------
(* Durable state *)

NoSeqFile == [exists |-> FALSE, value |-> 0]

SeqFileOf(n) == [exists |-> TRUE, value |-> n]

\* loadDiscoveredPackages: the lines of discovered-packages.txt, as a Set (insertion order)
LoadDiscoveredPackages(file) == Distinct(NonBlank(file))

\* loadScanningState: the lines of scanned-packages.txt, as a Set
LoadScanningState(file) == Distinct(NonBlank(file))

\* getCurrentSequence: response.data.last_seq || 0, and 0 when the request fails
GetCurrentSequence(ok) == IF ok THEN Len(feed) ELSE 0

\* loadLastSequence: the number in the file, otherwise the current sequence, saved at once
LoadLastSequence(file, curOk, writeOk) ==
    IF file.exists
    THEN [threw |-> FALSE, value |-> file.value, file |-> file]
    ELSE IF writeOk
         THEN [threw |-> FALSE, value |-> GetCurrentSequence(curOk),
               file |-> SeqFileOf(GetCurrentSequence(curOk))]
         ELSE [threw |-> TRUE, value |-> 0, file |-> file]

\* appendNewDiscoveredPackages: fs.writeFile replaces the content of the -new file
AppendNewDiscoveredPackages(old, ids) == IF Len(ids) > 0 THEN ids ELSE old

\* appendNewScannedPackages: fs.writeFile replaces the content of the -new file
AppendNewScannedPackages(old, ids) == ids

\* the two delta files as the program finds them
DeltaFiles == [discovered |-> discNewFile, scanned |-> scanNewFile]

\* appendNewScannedPackages writing to DISCOVERED_PACKAGES_NEW_FILE
WriteScannedDeltaWrongFile(deltas, ids) ==
    [deltas EXCEPT !.discovered = AppendNewScannedPackages(@, ids)]

\* appendNewScannedPackages, lines 325-327: the delta files after the write to
\* SCANNED_PACKAGES_NEW_FILE
WriteScannedDelta(deltas, ids) ==
    [deltas EXCEPT !.scanned = AppendNewScannedPackages(@, ids)]

-----------------------------------------------------------------------------
(* The external services *)

\* params.since is sent only when lastSequence > 0
SinceParamNever(lastSequence) == 0

SinceParam(lastSequence) == IF lastSequence > 0 THEN lastSequence ELSE 0

\* response.data.results of GET _changes?since=..&limit=..
FeedResults(since) ==
    [i \in 1 .. Min(FeedLimit, Max(0, Len(feed) - since)) |->
        [seq |-> since + i, id |-> feed[since + i].id, deleted |-> feed[since + i].deleted]]

\* the registry: the version served by GET /{name}/latest
Latest(name) == V1

LookupOutcomes == {"ok", "null", "undefined", "noversion"}

\* fetchPackageInfo answering an error with a record of unknown version
FetchPackageInfoStub(id, outcome) ==
    IF id \notin Names
    THEN [ok |-> FALSE, name |-> Missing, version |-> Missing]
    ELSE [ok |-> TRUE, name |-> id,
          version |-> CASE outcome = "ok" -> Latest(id)
                        [] outcome \in {"undefined", "null"} -> Undefined
                        [] OTHER -> Missing]

\* fetchPackageInfo: null on any error, otherwise name and version of the registry's answer
FetchPackageInfo(id, outcome) ==
    IF outcome = "null" \/ id \notin Names
    THEN [ok |-> FALSE, name |-> Missing, version |-> Missing]
    ELSE [ok |-> TRUE, name |-> id,
          version |-> CASE outcome = "ok" -> Latest(id)
                        [] outcome = "undefined" -> Undefined
                        [] OTHER -> Missing]

-----------------------------------------------------------------------------
(* getLatestChanges: the walk over the page *)

IsDesignDoc(id) == id = <<>> \/ StartsWith(id, DesignPrefix)

\* this.state.discoveredPackages.has(fullPackageId)
AlreadyDiscoveredNever(acc, full) == FALSE

AlreadyDiscovered(acc, full) == full \in acc.discovered

\* line 146: if (change.deleted)
IsDeletedNever(change) == FALSE

IsDeleted(change) == change.deleted

\* line 175 without the break
CapReachedNever(size) == FALSE

\* line 175: if (packagesToProcess.size >= MAX_PACKAGES_PER_RUN)
CapReached(size) == size >= MAX_PACKAGES_PER_RUN

\* line 164 without the check of the version
InvalidVersionNever(version) == FALSE

\* line 164: if (packageInfo.version === 'undefined' || !packageInfo.version)
InvalidVersion(version) == version = Undefined \/ version = Missing

\* one iteration of the for loop, lines 144-185; acc.stop is the break of line 176,
\* acc.walked counts the iterations made
WalkStep(acc0, change, outcome) ==
    IF acc0.stop THEN acc0
    ELSE LET acc == [acc0 EXCEPT !.walked = @ + 1] IN
    IF IsDeleted(change) THEN acc
    ELSE IF IsDesignDoc(change.id) THEN acc
    ELSE LET info == FetchPackageInfo(change.id, outcome)
             seen == [acc EXCEPT
                         !.dup = IF Format(info.name, info.version) \in acc.resolved
                                 THEN @ \cup {Format(info.name, info.version)} ELSE @,
                         !.resolved = @ \cup {Format(info.name, info.version)}]
             bump(a) == [a EXCEPT !.lastSequence = Max(@, change.seq)]
         IN  IF info.ok /\ info.name # Missing /\ info.version # Missing
             THEN LET full == Format(info.name, info.version)
                  IN  IF InvalidVersion(info.version) THEN [acc EXCEPT !.dropped = @ + 1]
                      ELSE IF ~AlreadyDiscovered(acc, full)
                           THEN LET added == [seen EXCEPT
                                        !.discovered = @ \cup {full},
                                        !.new = Append(@, full),
                                        !.pkgs = Append(@, [name |-> info.name,
                                                            version |-> info.version])]
                                IN  IF CapReached(Cardinality(Elems(added.new)))
                                    THEN [added EXCEPT !.stop = TRUE]
                                    ELSE bump(added)
                           ELSE bump(seen)
             ELSE IF info.ok /\ info.name # Missing
                  THEN bump([acc EXCEPT !.dropped = @ + 1])
                  ELSE bump(acc)

RECURSIVE Walk(_, _, _)
Walk(acc, results, outcomes) ==
    IF results = <<>> THEN acc
    ELSE Walk(WalkStep(acc, Head(results), Head(outcomes)), Tail(results), Tail(outcomes))

\* lines 188-190: the reported last_seq replaces the cursor
AdoptLastSeqNever(lastSequence, last_seq) == lastSequence

AdoptLastSeq(lastSequence, last_seq) ==
    IF last_seq # 0 THEN last_seq ELSE lastSequence

-----------------------------------------------------------------------------
(* The discovery run: getLatestChanges *)

IdleState == [lastSequence |-> 0, discoveredPackages |-> {}, scannedPackages |-> {}]

IdleRun == [loadedSeq |-> 0, loaded |-> {}, resolved |-> {}, dup |-> {},
            pageLen |-> 0, second |-> FALSE, drained |-> FALSE, plain |-> FALSE,
            cold |-> FALSE, lastSeq |-> 0, allOk |-> FALSE, walked |-> 0, stop |-> FALSE,
            lastFailed |-> 0, dropped |-> 0]

\* the run is over: its NpmChangesFeed object and its locals are gone
EndDiscovery(quiet, recorded, threw, failed) ==
    /\ dpc' = "idle"
    /\ state' = IdleState
    /\ newDiscoveredPackages' = <<>>
    /\ packages' = <<>>
    /\ drun' = IdleRun
    /\ dhist' = [quiet |-> quiet, plain |-> quiet /\ drun.plain, recorded |-> recorded,
                 threw |-> threw, failed |-> failed]

\* loadDiscoveryState fails: no cursor file, and the write of the initial cursor fails.
\* The call is outside the try block of getLatestChanges, so the run raises.
DiscoverLoadThrows ==
    /\ dpc = "idle"
    /\ LoadLastSequence(seqFile, TRUE, FALSE).threw
    /\ EndDiscovery(FALSE, dhist.recorded, TRUE, FALSE)
    /\ UNCHANGED <<feed, files, svars, calls>>

\* the request awaited outside the try block
RequestErrorEscapes == TRUE

\* lines 120-139 and 201-207: the request is awaited inside the try block, whose catch
\* logs the error and falls through to the return of line 209
RequestErrorRaised == FALSE

\* the change-feed request fails: caught at line 201, the run returns an empty list
DiscoverRequestFails ==
    /\ dpc = "idle"
    /\ \E curOk \in (IF seqFile.exists THEN {TRUE} ELSE BOOLEAN) :
          /\ seqFile' = LoadLastSequence(seqFile, curOk, TRUE).file
          /\ EndDiscovery(FALSE, dhist.recorded, RequestErrorRaised, TRUE)
    /\ UNCHANGED <<feed, discFile, discNewFile, scanFile, scanNewFile, svars, calls>>

\* a page as the registry serves it when nothing fails: every lookup answers with the
\* latest version, and last_seq is the seq of the last entry of the page
PlainPage(results, last_seq, outcomes) ==
    /\ \A i \in DOMAIN results : outcomes[i] = "ok"
    /\ Len(results) > 0 => last_seq = results[Len(results)].seq

\* the lookups a walk makes: none for an entry skipped at lines 146-154
Lookups(results) ==
    {o \in [DOMAIN results -> LookupOutcomes] :
        \A i \in DOMAIN results :
            (results[i].deleted \/ IsDesignDoc(results[i].id)) => o[i] = "ok"}

\* lines 114-193: load, request one page, walk it
DiscoverWalk ==
    /\ dpc = "idle"
    /\ \E curOk \in (IF seqFile.exists THEN {TRUE} ELSE BOOLEAN) :
       \E ld \in {LoadLastSequence(seqFile, curOk, TRUE)} :
       \E loaded \in {Elems(LoadDiscoveredPackages(discFile))} :
       \E results \in {FeedResults(SinceParam(ld.value))} :
       \E last_seq \in (IF Len(results) > 0 THEN 0 .. Len(feed) ELSE {0}) :
       \E outcomes \in Lookups(results) :
       \E acc \in {Walk([lastSequence |-> ld.value, discovered |-> loaded,
                         new |-> <<>>, pkgs |-> <<>>, stop |-> FALSE,
                         resolved |-> {}, dup |-> {}, walked |-> 0, dropped |-> 0],
                        results, outcomes)} :
          /\ seqFile' = ld.file
          /\ state' = [lastSequence |-> IF Len(results) > 0
                                        THEN AdoptLastSeq(acc.lastSequence, last_seq)
                                        ELSE acc.lastSequence,
                       discoveredPackages |-> acc.discovered,
                       scannedPackages |-> {}]
          /\ newDiscoveredPackages' = acc.new
          /\ packages' = acc.pkgs
          /\ drun' = [loadedSeq |-> ld.value, loaded |-> loaded,
                      resolved |-> acc.resolved, dup |-> acc.dup,
                      pageLen |-> Len(results),
                      second |-> dhist.quiet,
                      drained |-> ld.value >= Len(feed),
                      plain |-> PlainPage(results, last_seq, outcomes),
                      cold |-> ~seqFile.exists,
                      lastSeq |-> last_seq,
                      allOk |-> \A i \in DOMAIN results : outcomes[i] = "ok",
                      walked |-> acc.walked,
                      stop |-> acc.stop,
                      dropped |-> acc.dropped,
                      lastFailed |-> IF \E i \in 1 .. acc.walked : outcomes[i] = "null"
                                     THEN CHOOSE i \in 1 .. acc.walked :
                                              /\ outcomes[i] = "null"
                                              /\ \A j \in i + 1 .. acc.walked :
                                                     outcomes[j] # "null"
                                     ELSE 0]
          /\ dhist' = [dhist EXCEPT !.quiet = TRUE, !.threw = FALSE, !.failed = FALSE]
          /\ dpc' = "walked"
    /\ UNCHANGED <<feed, discFile, discNewFile, scanFile, scanNewFile, svars, calls>>

\* line 196: saveDiscoveryState writes the cursor; a failed write is caught at line 201
DiscoverSaveSeq ==
    /\ dpc = "walked"
    /\ \/ /\ seqFile' = SeqFileOf(state.lastSequence)
          /\ dpc' = "saved"
          /\ UNCHANGED <<state, newDiscoveredPackages, packages, drun, dhist>>
       \/ /\ EndDiscovery(FALSE, dhist.recorded, FALSE, FALSE)
          /\ UNCHANGED seqFile
    /\ UNCHANGED <<feed, discFile, discNewFile, scanFile, scanNewFile, svars, calls>>

\* line 197: appendNewDiscoveredPackages writes the new identifiers
DiscoverAppend ==
    /\ dpc = "saved"
    /\ \/ /\ discNewFile' = AppendNewDiscoveredPackages(discNewFile, newDiscoveredPackages)
          /\ EndDiscovery(dhist.quiet, dhist.recorded \cup Elems(newDiscoveredPackages), FALSE,
                          FALSE)
       \/ /\ EndDiscovery(FALSE, dhist.recorded, FALSE, FALSE)
          /\ UNCHANGED discNewFile
    /\ UNCHANGED <<feed, seqFile, discFile, scanFile, scanNewFile, svars, calls>>

\* the process dies between two steps of the run
DiscoverCrash ==
    /\ dpc \in {"walked", "saved"}
    /\ EndDiscovery(FALSE, dhist.recorded, FALSE, FALSE)
    /\ UNCHANGED <<feed, files, svars, calls>>

-----------------------------------------------------------------------------
(* The environment of discovery *)

EntryKinds == {[id |-> NameA, deleted |-> FALSE], [id |-> NameB, deleted |-> FALSE],
               [id |-> NameA, deleted |-> TRUE], [id |-> DesignId, deleted |-> FALSE]}

\* the registry logs one more change (a run reads the feed in its first step only)
FeedAppend ==
    /\ dpc = "idle"
    /\ Len(feed) < MaxFeed
    /\ \E e \in EntryKinds : feed' = Append(feed, e)
    /\ dhist' = [dhist EXCEPT !.quiet = FALSE, !.failed = FALSE]
    /\ UNCHANGED <<files, dpc, state, newDiscoveredPackages, packages, drun, svars, calls>>

\* the delta file is folded into discovered-packages.txt outside the program
ConsolidateDiscovered ==
    /\ dpc = "idle"
    /\ discNewFile # <<>>
    /\ discFile' = Distinct(discFile \o discNewFile)
    /\ discNewFile' = <<>>
    /\ UNCHANGED <<feed, seqFile, scanFile, scanNewFile, dvars, svars, calls>>

-----------------------------------------------------------------------------
(* parsePackageId *)

\* packageId.split(sep)
RECURSIVE Split(_, _)
Split(s, sep) ==
    IF \A i \in DOMAIN s : s[i] # sep THEN <<s>>
    ELSE LET k == CHOOSE i \in DOMAIN s : s[i] = sep /\ \A j \in 1 .. i - 1 : s[j] # sep
         IN  <<SubSeq(s, 1, k - 1)>> \o Split(SubSeq(s, k + 1, Len(s)), sep)

\* packageId.lastIndexOf(c), counted from 0
LastIndexOf(s, c) ==
    IF \A i \in DOMAIN s : s[i] # c THEN -1
    ELSE (CHOOSE i \in DOMAIN s : s[i] = c /\ \A j \in i + 1 .. Len(s) : s[j] # c) - 1

\* const [name, version] = packageId.split('@')
ParsePackageIdBySplit(packageId) ==
    [name |-> Split(packageId, "@")[1],
     version |-> IF Len(Split(packageId, "@")) >= 2 THEN Split(packageId, "@")[2] ELSE Missing]

\* a null name or version is the falsy string Missing
ParsePackageId(packageId) ==
    IF StartsWith(packageId, <<"@">>)
    THEN LET parts == Split(packageId, "@")
         IN  IF Len(parts) >= 3
             THEN [name |-> <<"@">> \o parts[2], version |-> parts[3]]
             ELSE IF Len(parts) = 2
                  THEN [name |-> <<"@">> \o parts[2], version |-> Missing]
                  ELSE [name |-> Missing, version |-> Missing]
    ELSE LET lastAtIndex == LastIndexOf(packageId, "@")
         IN  IF lastAtIndex > 0
             THEN [name |-> SubSeq(packageId, 1, lastAtIndex),
                   version |-> SubSeq(packageId, lastAtIndex + 2, Len(packageId))]
             ELSE IF lastAtIndex = -1
                  THEN [name |-> packageId, version |-> Missing]
                  ELSE [name |-> Missing, version |-> Missing]

-----------------------------------------------------------------------------
(* getPendingScans *)

RECURSIVE Filter(_, _)
Filter(s, keep) ==
    IF s = <<>> THEN <<>>
    ELSE IF Head(s) \in keep THEN <<Head(s)>> \o Filter(Tail(s), keep)
    ELSE Filter(Tail(s), keep)

\* line 276: [...discoveredPackages].filter(pkg => !scannedPackages.has(pkg))
PendingPackagesAll(discovered, scanned) == discovered

PendingPackages(discovered, scanned) == Filter(discovered, Elems(discovered) \ Elems(scanned))

\* lines 280-305: parse each pending identifier, skip the malformed ones, stop at the cap
RECURSIVE PendingInfos(_, _)
PendingInfos(ids, out) ==
    IF ids = <<>> THEN out
    ELSE LET p == ParsePackageId(Head(ids))
         IN  IF p.name = Missing \/ p.version = Missing \/ p.version = Undefined
             THEN PendingInfos(Tail(ids), out)
             ELSE IF Len(out) + 1 >= MAX_PACKAGES_PER_RUN
                  THEN Append(out, p)
                  ELSE PendingInfos(Tail(ids), Append(out, p))

GetPendingScans(discovered, scanned) ==
    PendingInfos(PendingPackages(discovered, scanned), <<>>)

\* markPackagesScanned, lines 311-316: the identifiers written for the packages
RECURSIVE FullPackageIds(_)
FullPackageIds(pkgs) ==
    IF pkgs = <<>> THEN <<>>
    ELSE <<Format(Head(pkgs).name, Head(pkgs).version)>> \o FullPackageIds(Tail(pkgs))

-----------------------------------------------------------------------------
(* The scan-pending command and scanBatch *)

IdleScanRun == [loadedDiscovered |-> {}, loadedScanned |-> {}, results |-> <<>>]

NoScanHist == [ret |-> "none", marked |-> {}, passed |-> <<>>, failed |-> {},
               anyFail |-> FALSE, laterOk |-> FALSE]

ScanOutcomes == {"ok", "download", "detector", "report"}

\* scanBatch, lines 156-164: the catch clause takes every error of performScan and
\* processResults; cleanup in the finally clause swallows its own errors
ScanBatchCatchesNoReport(outcome) == outcome # "report"

ScanBatchCatches(outcome) == TRUE

\* the packages the scan-pending command hands to markPackagesScanned, line 293
PackagesToMarkScanned(pkgs, results) == pkgs

EndScan(ret, marked, passed, failed, anyFail, laterOk) ==
    /\ spc' = "idle"
    /\ pending' = <<>>
    /\ srun' = IdleScanRun
    /\ shist' = [ret |-> ret, marked |-> marked, passed |-> passed, failed |-> failed,
                 anyFail |-> anyFail, laterOk |-> laterOk]

\* getPendingScans raises: no cursor file, and the write of the initial cursor fails
ScanPendingLoadThrows ==
    /\ spc = "idle"
    /\ LoadLastSequence(seqFile, TRUE, FALSE).threw
    /\ EndScan("threw", shist.marked, <<>>, {}, TRUE, FALSE)
    /\ UNCHANGED <<feed, files, dvars, calls>>

\* lines 287-296 of the command: getPendingScans, then either nothing to do or scanBatch
ScanPendingBegin ==
    /\ spc = "idle"
    /\ \E curOk \in (IF seqFile.exists THEN {TRUE} ELSE BOOLEAN) :
       \E discovered \in {LoadDiscoveredPackages(discFile)} :
       \E scanned \in {LoadScanningState(scanFile)} :
       \E pkgs \in {GetPendingScans(discovered, scanned)} :
          /\ seqFile' = LoadLastSequence(seqFile, curOk, TRUE).file
          /\ IF Len(pkgs) > 0
             THEN /\ spc' = "scanning"
                  /\ pending' = pkgs
                  /\ srun' = [loadedDiscovered |-> Elems(discovered),
                              loadedScanned |-> Elems(scanned), results |-> <<>>]
                  /\ shist' = [shist EXCEPT !.ret = "running", !.passed = <<>>,
                                            !.failed = {}, !.laterOk = FALSE]
             ELSE EndScan("empty", shist.marked, <<>>, {}, shist.anyFail, FALSE)
    /\ UNCHANGED <<feed, discFile, discNewFile, scanFile, scanNewFile, dvars, calls>>

\* one iteration of the for loop of scanBatch; after the last one scanBatch returns
ScanOne ==
    /\ spc = "scanning"
    /\ \E outcome \in ScanOutcomes :
          IF outcome = "ok" \/ ScanBatchCatches(outcome)
          THEN /\ srun' = [srun EXCEPT !.results = Append(@, outcome)]
               /\ spc' = IF Len(srun.results) + 1 = Len(pending) THEN "scanned" ELSE "scanning"
               /\ shist' = [shist EXCEPT !.anyFail = @ \/ outcome # "ok"]
               /\ UNCHANGED pending
          ELSE EndScan("aborted", shist.marked, <<>>, {}, TRUE, FALSE)
    /\ UNCHANGED <<feed, files, dvars, calls>>

\* the identifiers of the packages whose performScan raised
FailedIds(pkgs, results) ==
    {Format(pkgs[i].name, pkgs[i].version) :
        i \in {j \in DOMAIN pkgs : results[j] \in {"download", "detector"}}}

\* the attempts the command makes to persist the scanned identifiers, line 293:
\* markPackagesScanned is called directly, once
CommitAttempts == 1

\* markPackagesScannedWithRetry(packages, maxRetries: number = 3)
DefaultMaxRetries == 3

\* line 293: markPackagesScanned(packages) after scanBatch has returned; writes[k] tells
\* whether the k-th write of the delta file, if it is made, succeeds
MarkPackagesScanned ==
    /\ spc = "scanned"
    /\ \E ids \in {FullPackageIds(PackagesToMarkScanned(pending, srun.results))} :
       \E failed \in {FailedIds(pending, srun.results)} :
          IF Len(ids) = 0
          THEN /\ UNCHANGED <<discNewFile, scanNewFile>>
               /\ EndScan("returned", shist.marked, ids, failed, shist.anyFail, FALSE)
          ELSE \E writes \in [1 .. DefaultMaxRetries -> BOOLEAN] :
                  IF \E k \in 1 .. CommitAttempts : writes[k]
                  THEN /\ \E after \in {WriteScannedDelta(DeltaFiles, ids)} :
                             /\ discNewFile' = after.discovered
                             /\ scanNewFile' = after.scanned
                       /\ EndScan("returned", shist.marked \cup Elems(ids), ids, failed,
                                  shist.anyFail, FALSE)
                  ELSE /\ UNCHANGED <<discNewFile, scanNewFile>>
                       /\ EndScan("threw", shist.marked, ids, failed, TRUE,
                                  \E k \in 1 .. DefaultMaxRetries : writes[k])
    /\ UNCHANGED <<feed, seqFile, discFile, scanFile, dvars, calls>>

\* the delta file is folded into scanned-packages.txt outside the program
ConsolidateScanned ==
    /\ spc = "idle"
    /\ scanNewFile # <<>>
    /\ scanFile' = Distinct(scanFile \o scanNewFile)
    /\ scanNewFile' = <<>>
    /\ UNCHANGED <<feed, seqFile, discFile, discNewFile, dvars, svars, calls>>

-----------------------------------------------------------------------------
(* Calls checked on their own *)

NoCall == [op |-> "none"]

NoBatch == [op |-> "none"]

-----------------------------------------------------------------------------
(* markPackagesScannedWithRetry *)

MaxRetriesArg == 3          \* largest maxRetries a call is made with

WriteErrors == {"EIO", "ENOSPC"}

NoRetry == [pc |-> "none"]

\* line 337: the last attempt failed
RetryGivesUpLate(attempt, maxRetries) == attempt = maxRetries + 1

RetryGivesUp(attempt, maxRetries) == attempt = maxRetries

\* one iteration of the for loop, lines 331-345: markPackagesScanned is called; it
\* writes nothing and succeeds for an empty list, otherwise the write succeeds or fails
RetryAttempt ==
    /\ retry.pc = "loop"
    /\ retry.attempt <= retry.maxRetries
    /\ \E ids \in {FullPackageIds(retry.packages)} :
       \E outcome \in (IF Len(ids) = 0 THEN {"ok"} ELSE {"ok"} \cup WriteErrors) :
          /\ \E after \in {IF outcome = "ok" /\ Len(ids) > 0
                          THEN WriteScannedDelta(DeltaFiles, ids) ELSE DeltaFiles} :
                /\ discNewFile' = after.discovered
                /\ scanNewFile' = after.scanned
          /\ retry' = [retry EXCEPT
                          !.outcomes = Append(@, outcome),
                          !.pc = IF outcome = "ok" THEN "returned"
                                 ELSE IF RetryGivesUp(retry.attempt, retry.maxRetries)
                                      THEN "threw" ELSE "loop",
                          !.thrown = IF outcome # "ok"
                                        /\ RetryGivesUp(retry.attempt, retry.maxRetries)
                                     THEN outcome ELSE @,
                          !.attempt = IF outcome = "ok"
                                         \/ RetryGivesUp(retry.attempt, retry.maxRetries)
                                      THEN @ ELSE @ + 1]
    /\ UNCHANGED <<feed, seqFile, discFile, scanFile, dvars, svars, fn, batch>>

\* the loop condition attempt <= maxRetries is false: the function returns
RetryLoopExit ==
    /\ retry.pc = "loop"
    /\ retry.attempt > retry.maxRetries
    /\ retry' = [retry EXCEPT !.pc = "returned"]
    /\ UNCHANGED <<feed, files, dvars, svars, fn, batch>>

-----------------------------------------------------------------------------
(* Specification of discovery *)

Init ==
    /\ feed = <<>>
    /\ seqFile = NoSeqFile
    /\ discFile = <<>>
    /\ discNewFile = <<>>
    /\ scanFile = <<>>
    /\ scanNewFile = <<>>
    /\ dpc = "idle"
    /\ state = IdleState
    /\ newDiscoveredPackages = <<>>
    /\ packages = <<>>
    /\ drun = IdleRun
    /\ dhist = [quiet |-> FALSE, plain |-> FALSE, recorded |-> {}, threw |-> FALSE,
               failed |-> FALSE]
    /\ spc = "idle"
    /\ pending = <<>>
    /\ srun = IdleScanRun
    /\ shist = NoScanHist
    /\ retry = NoRetry
    /\ fn = NoCall
    /\ batch = NoBatch

Next ==
    \/ DiscoverLoadThrows
    \/ DiscoverRequestFails
    \/ DiscoverWalk
    \/ DiscoverSaveSeq
    \/ DiscoverAppend
    \/ DiscoverCrash
    \/ FeedAppend
    \/ ConsolidateDiscovered

Spec == Init /\ [][Next]_vars

-----------------------------------------------------------------------------
(* Specification of the scan-pending command *)

MaxLines == 3               \* lines of discovered-packages.txt at the start

IdA1 == Format(NameA, V1)
IdA2 == Format(NameA, V2)
IdB1 == Format(NameB, V1)
IdAUndefined == Format(NameA, Undefined)

\* the sequences without repetition of at most n elements of S
RECURSIVE Arrangements(_, _)
Arrangements(S, n) ==
    IF n = 0 THEN {<<>>}
    ELSE LET shorter == Arrangements(S, n - 1)
         IN  shorter \cup {s \in {Append(t, x) : t \in shorter, x \in S} : NoDup(s)}

ScanInit ==
    /\ feed = <<>>
    /\ seqFile \in {NoSeqFile, SeqFileOf(0)}
    /\ discFile \in Arrangements({IdA1, IdA2, IdB1, IdAUndefined, NameB}, MaxLines)
    /\ discNewFile = <<>>
    /\ scanFile \in Arrangements({IdA1, IdB1}, MaxLines - 1)
    /\ scanNewFile = <<>>
    /\ dpc = "idle"
    /\ state = IdleState
    /\ newDiscoveredPackages = <<>>
    /\ packages = <<>>
    /\ drun = IdleRun
    /\ dhist = [quiet |-> FALSE, plain |-> FALSE, recorded |-> {}, threw |-> FALSE,
               failed |-> FALSE]
    /\ spc = "idle"
    /\ pending = <<>>
    /\ srun = IdleScanRun
    /\ shist = NoScanHist
    /\ retry = NoRetry
    /\ fn = NoCall
    /\ batch = NoBatch

ScanNext ==
    \/ ScanPendingLoadThrows
    \/ ScanPendingBegin
    \/ ScanOne
    \/ MarkPackagesScanned
    \/ ConsolidateScanned

ScanSpec == ScanInit /\ [][ScanNext]_vars

\* the command runs to its end, and the scheduler starts it again and again
ScanFairSpec ==
    /\ ScanInit
    /\ [][ScanNext]_vars
    /\ WF_vars(ScanPendingBegin)
    /\ WF_vars(ScanOne)
    /\ WF_vars(MarkPackagesScanned)

-----------------------------------------------------------------------------
(* Specification of markPackagesScannedWithRetry *)

PkgA1 == [name |-> NameA, version |-> V1]
PkgA2 == [name |-> NameA, version |-> V2]
PkgB1 == [name |-> NameB, version |-> V1]

RetryInit ==
    /\ feed = <<>>
    /\ seqFile = NoSeqFile
    /\ discFile = <<>>
    /\ discNewFile = <<>>
    /\ scanFile = <<>>
    /\ scanNewFile \in {<<>>, <<IdA2>>}
    /\ dpc = "idle"
    /\ state = IdleState
    /\ newDiscoveredPackages = <<>>
    /\ packages = <<>>
    /\ drun = IdleRun
    /\ dhist = [quiet |-> FALSE, plain |-> FALSE, recorded |-> {}, threw |-> FALSE,
               failed |-> FALSE]
    /\ spc = "idle"
    /\ pending = <<>>
    /\ srun = IdleScanRun
    /\ shist = NoScanHist
    /\ \E n \in 0 .. MaxRetriesArg, pkgs \in Arrangements({PkgA1, PkgA2, PkgB1}, 2) :
          retry = [pc |-> "loop", maxRetries |-> n, attempt |-> 1, packages |-> pkgs,
                   outcomes |-> <<>>, thrown |-> "none"]
    /\ fn = NoCall
    /\ batch = NoBatch

RetryNext ==
    \/ RetryAttempt
    \/ RetryLoopExit

RetrySpec == RetryInit /\ [][RetryNext]_vars

-----------------------------------------------------------------------------
(* Specification of parsePackageId on the strings markPackagesScanned writes *)

MaxNameLen == 2             \* characters of an unscoped name, of a scope, of a scoped package

MaxVersionLen == 2          \* characters of a version

\* the strings of 1 to n characters of A
RECURSIVE Strings(_, _)
Strings(A, n) ==
    IF n = 0 THEN {}
    ELSE LET shorter == Strings(A, n - 1)
         IN  {<<c>> : c \in A} \cup {Append(t, c) : t \in shorter, c \in A}

PlainNames == Strings({"a", "b", "-"}, MaxNameLen)

ScopedNames == {<<"@">> \o scope \o <<"/">> \o pkg : scope \in PlainNames, pkg \in PlainNames}

Versions == Strings({"1", ".", "-"}, MaxVersionLen)

\* the call parsePackageId(`${pkg.name}@${pkg.version}`)
ParseCall ==
    /\ fn.op = "parsePackageId"
    /\ fn.pc = "call"
    /\ fn' = [fn EXCEPT !.pc = "done",
                        !.result = ParsePackageId(Format(fn.name, fn.version))]
    /\ UNCHANGED <<feed, files, dvars, svars, retry, batch>>

ParseInit ==
    /\ feed = <<>>
    /\ seqFile = NoSeqFile
    /\ discFile = <<>>
    /\ discNewFile = <<>>
    /\ scanFile = <<>>
    /\ scanNewFile = <<>>
    /\ dpc = "idle"
    /\ state = IdleState
    /\ newDiscoveredPackages = <<>>
    /\ packages = <<>>
    /\ drun = IdleRun
    /\ dhist = [quiet |-> FALSE, plain |-> FALSE, recorded |-> {}, threw |-> FALSE,
               failed |-> FALSE]
    /\ spc = "idle"
    /\ pending = <<>>
    /\ srun = IdleScanRun
    /\ shist = NoScanHist
    /\ retry = NoRetry
    /\ batch = NoBatch
    /\ \E name \in PlainNames \cup ScopedNames, version \in Versions :
          fn = [op |-> "parsePackageId", pc |-> "call", name |-> name, version |-> version,
                result |-> [name |-> Missing, version |-> Missing]]

ParseNext == ParseCall

ParseSpec == ParseInit /\ [][ParseNext]_vars

-----------------------------------------------------------------------------
(* RiskScorer. A score is counted in half points, so that 62.5 is 125; every weight  *)
(* and every product of the code is a multiple of 0.5.                              *)

PatEvalUsage == <<"e", "v", "a", "l", "-", "u", "s", "a", "g", "e">>
PatChildProcess == <<"c", "h", "i", "l", "d", "-", "p", "r", "o", "c", "e", "s", "s">>
PatInstallScripts == <<"i", "n", "s", "t", "a", "l", "l", "-", "s", "c", "r", "i", "p", "t", "s">>
PatCryptoMining == <<"c", "r", "y", "p", "t", "o", "-", "m", "i", "n", "i", "n", "g">>
PatNetworkRequest == <<"n", "e", "t", "w", "o", "r", "k", "-", "r", "e", "q", "u", "e", "s", "t">>
PatFsOperations == <<"f", "s", "-", "o", "p", "e", "r", "a", "t", "i", "o", "n", "s">>
PatObfuscation == <<"o", "b", "f", "u", "s", "c", "a", "t", "i", "o", "n">>

HighRiskPatterns == {PatEvalUsage, PatChildProcess, PatInstallScripts, PatCryptoMining}

MediumRiskPatterns == {PatNetworkRequest, PatFsOperations, PatObfuscation}

CriticalSecrets == {"AWS Access Key", "Private Key", "NPM Token", "GitHub Token"}

HighRiskSecrets == {"Google API Key", "Slack Token", "Discord Bot Token", "Stripe Secret Key"}

\* rule.includes(pattern)
Includes(str, pattern) ==
    \E i \in 0 .. Len(str) - Len(pattern) : SubSeq(str, i + 1, i + Len(pattern)) = pattern

\* scoreVulnerabilities: reduce from 0
RECURSIVE ScoreVulnerabilities(_)
ScoreVulnerabilities(vulnerabilities) ==
    IF vulnerabilities = <<>> THEN 0
    ELSE LET score == ScoreVulnerabilities(SubSeq(vulnerabilities, 1, Len(vulnerabilities) - 1))
             vuln == vulnerabilities[Len(vulnerabilities)]
         IN  CASE vuln.severity = "CRITICAL" -> score + 2 * 40
               [] vuln.severity = "HIGH" -> score + 2 * 20
               [] vuln.severity = "MEDIUM" -> score + 2 * 8
               [] vuln.severity = "LOW" -> score + 2 * 2
               [] OTHER -> score

\* getIssueMultiplier, doubled: 2.0, 1.5, 1.0
GetIssueMultiplier(rule) ==
    IF \E pattern \in HighRiskPatterns : Includes(rule, pattern) THEN 4
    ELSE IF \E pattern \in MediumRiskPatterns : Includes(rule, pattern) THEN 3
    ELSE 2

\* getSecretMultiplier without its list of critical secret types
GetSecretMultiplierNoCritical(secretType) ==
    IF secretType \in HighRiskSecrets THEN 4
    ELSE 2

\* getSecretMultiplier, doubled: 2.5, 2.0, 1.0
GetSecretMultiplier(secretType) ==
    IF secretType \in CriticalSecrets THEN 5
    ELSE IF secretType \in HighRiskSecrets THEN 4
    ELSE 2

RECURSIVE ScoreCodeIssues(_)
ScoreCodeIssues(codeIssues) ==
    IF codeIssues = <<>> THEN 0
    ELSE LET score == ScoreCodeIssues(SubSeq(codeIssues, 1, Len(codeIssues) - 1))
             issue == codeIssues[Len(codeIssues)]
             baseScore == CASE issue.severity = "HIGH" -> 15
                            [] issue.severity = "MEDIUM" -> 5
                            [] issue.severity = "LOW" -> 1
                            [] OTHER -> 0
         IN  score + baseScore * GetIssueMultiplier(issue.rule)

RECURSIVE ScoreSecrets(_)
ScoreSecrets(secrets) ==
    IF secrets = <<>> THEN 0
    ELSE LET score == ScoreSecrets(SubSeq(secrets, 1, Len(secrets) - 1))
             secret == secrets[Len(secrets)]
             baseScore == CASE secret.confidence = "HIGH" -> 25
                            [] secret.confidence = "MEDIUM" -> 10
                            [] secret.confidence = "LOW" -> 3
                            [] OTHER -> 0
         IN  score + baseScore * GetSecretMultiplier(secret.type)

RECURSIVE ScoreMetadataIssues(_)
ScoreMetadataIssues(metadataIssues) ==
    IF metadataIssues = <<>> THEN 0
    ELSE LET score == ScoreMetadataIssues(SubSeq(metadataIssues, 1, Len(metadataIssues) - 1))
             issue == metadataIssues[Len(metadataIssues)]
         IN  CASE issue.severity = "HIGH" -> score + 2 * 10
               [] issue.severity = "MEDIUM" -> score + 2 * 5
               [] issue.severity = "LOW" -> score + 2 * 1
               [] OTHER -> score

\* scoreToRiskLevel with > in place of >=
ScoreToRiskLevelStrict(score) ==
    IF score > 2 * 80 THEN "CRITICAL"
    ELSE IF score > 2 * 40 THEN "HIGH"
    ELSE IF score > 2 * 15 THEN "MEDIUM"
    ELSE "LOW"

ScoreToRiskLevel(score) ==
    IF score >= 2 * 80 THEN "CRITICAL"
    ELSE IF score >= 2 * 40 THEN "HIGH"
    ELSE IF score >= 2 * 15 THEN "MEDIUM"
    ELSE "LOW"

CalculateRiskScore(vulnerabilities, codeIssues, secrets, metadataIssues) ==
    [overall |-> ScoreToRiskLevel(ScoreVulnerabilities(vulnerabilities)
                                  + ScoreCodeIssues(codeIssues)
                                  + ScoreSecrets(secrets)
                                  + ScoreMetadataIssues(metadataIssues)),
     vulnerabilities |-> Len(vulnerabilities),
     codeIssues |-> Len(codeIssues),
     secrets |-> Len(secrets),
     metadataIssues |-> Len(metadataIssues)]

\* every level from MEDIUM up is reported
ShouldCreateIssueMediumUp(riskScore) ==
    riskScore.overall \in {"CRITICAL", "HIGH", "MEDIUM"}

\* a MEDIUM result is reported for its vulnerabilities only
ShouldCreateIssueVulnOnly(riskScore) ==
    \/ riskScore.overall = "CRITICAL"
    \/ riskScore.overall = "HIGH"
    \/ /\ riskScore.overall = "MEDIUM"
       /\ riskScore.vulnerabilities > 0

\* the CRITICAL level is left out
ShouldCreateIssueNoCritical(riskScore) ==
    \/ riskScore.overall = "HIGH"
    \/ /\ riskScore.overall = "MEDIUM"
       /\ \/ riskScore.vulnerabilities > 0
          \/ riskScore.secrets > 0

ShouldCreateIssue(riskScore) ==
    \/ riskScore.overall = "CRITICAL"
    \/ riskScore.overall = "HIGH"
    \/ /\ riskScore.overall = "MEDIUM"
       /\ \/ riskScore.vulnerabilities > 0
          \/ riskScore.secrets > 0

\* processResults, types.ts: the score of a scan result is computed
ScoreCall ==
    /\ fn.op = "calculateRiskScore"
    /\ fn.pc = "call"
    /\ fn' = [fn EXCEPT !.pc = "scored",
                        !.result = CalculateRiskScore(fn.vulnerabilities, fn.codeIssues,
                                                      fn.secrets, fn.metadataIssues)]
    /\ UNCHANGED <<feed, files, dvars, svars, retry, batch>>

\* processResults: RiskScorer.shouldCreateIssue(result.riskScore)
DecideCall ==
    /\ fn.op = "calculateRiskScore"
    /\ fn.pc = "scored"
    /\ fn' = [fn EXCEPT !.pc = "decided", !.decision = ShouldCreateIssue(fn.result)]
    /\ UNCHANGED <<feed, files, dvars, svars, retry, batch>>

\* the collection with one more finding, at position k + 1
InsertAt(collection, k, finding) ==
    SubSeq(collection, 1, k) \o <<finding>> \o SubSeq(collection, k + 1, Len(collection))

\* calculateRiskScore and shouldCreateIssue on the same findings and one more CRITICAL
\* vulnerability
ScoreMoreCall ==
    /\ fn.op = "calculateRiskScore"
    /\ fn.pc = "decided"
    /\ \E k \in 0 .. Len(fn.vulnerabilities) :
          \E more \in {CalculateRiskScore(InsertAt(fn.vulnerabilities, k, [severity |-> "CRITICAL"]),
                                          fn.codeIssues, fn.secrets, fn.metadataIssues)} :
             fn' = [fn EXCEPT !.pc = "compared", !.more = more,
                              !.moreDecision = ShouldCreateIssue(more)]
    /\ UNCHANGED <<feed, files, dvars, svars, retry, batch>>

-----------------------------------------------------------------------------
(* Specification of the RiskScorer *)

MaxFindings == 2            \* findings of a scan result, over the four collections

RuleEvalUsage == PatEvalUsage
RuleSemgrepObfuscation == <<"j", "s", ".">> \o PatObfuscation \o <<".", "x">>
RuleEnvAccess == <<"e", "n", "v", "-", "a", "c", "c", "e", "s", "s">>

VulnerabilityKinds == {[severity |-> s] : s \in {"CRITICAL", "HIGH", "MEDIUM", "LOW"}}

CodeIssueKinds ==
    {[severity |-> s, rule |-> r] : s \in {"HIGH", "MEDIUM", "LOW"},
                                    r \in {RuleEvalUsage, RuleSemgrepObfuscation, RuleEnvAccess}}

SecretKinds ==
    {[confidence |-> c, type |-> t] : c \in {"HIGH", "MEDIUM", "LOW"},
                                      t \in {"AWS Access Key", "Slack Token", "Generic Secret"}}

MetadataKinds == {[severity |-> s] : s \in {"HIGH", "MEDIUM", "LOW"}}

NoFindings == [vulnerabilities |-> <<>>, codeIssues |-> <<>>, secrets |-> <<>>,
               metadataIssues |-> <<>>]

\* the scan results with at most n findings
RECURSIVE Findings(_)
Findings(n) ==
    IF n = 0 THEN {NoFindings}
    ELSE LET fewer == Findings(n - 1)
         IN  fewer
             \cup {[f EXCEPT !.vulnerabilities = Append(@, k)] : f \in fewer, k \in VulnerabilityKinds}
             \cup {[f EXCEPT !.codeIssues = Append(@, k)] : f \in fewer, k \in CodeIssueKinds}
             \cup {[f EXCEPT !.secrets = Append(@, k)] : f \in fewer, k \in SecretKinds}
             \cup {[f EXCEPT !.metadataIssues = Append(@, k)] : f \in fewer, k \in MetadataKinds}

RiskInit ==
    /\ feed = <<>>
    /\ seqFile = NoSeqFile
    /\ discFile = <<>>
    /\ discNewFile = <<>>
    /\ scanFile = <<>>
    /\ scanNewFile = <<>>
    /\ dpc = "idle"
    /\ state = IdleState
    /\ newDiscoveredPackages = <<>>
    /\ packages = <<>>
    /\ drun = IdleRun
    /\ dhist = [quiet |-> FALSE, plain |-> FALSE, recorded |-> {}, threw |-> FALSE,
               failed |-> FALSE]
    /\ spc = "idle"
    /\ pending = <<>>
    /\ srun = IdleScanRun
    /\ shist = NoScanHist
    /\ retry = NoRetry
    /\ batch = NoBatch
    /\ \E f \in Findings(MaxFindings) :
          fn = [op |-> "calculateRiskScore", pc |-> "call",
                vulnerabilities |-> f.vulnerabilities, codeIssues |-> f.codeIssues,
                secrets |-> f.secrets, metadataIssues |-> f.metadataIssues,
                result |-> [overall |-> "LOW", vulnerabilities |-> 0, codeIssues |-> 0,
                            secrets |-> 0, metadataIssues |-> 0],
                decision |-> FALSE,
                more |-> [overall |-> "LOW", vulnerabilities |-> 0, codeIssues |-> 0,
                          secrets |-> 0, metadataIssues |-> 0],
                moreDecision |-> FALSE]

RiskNext ==
    \/ ScoreCall
    \/ DecideCall
    \/ ScoreMoreCall

RiskSpec == RiskInit /\ [][RiskNext]_vars

-----------------------------------------------------------------------------
(* scanBatch and scanPackage of NPMSecurityScanner, step by step: download, *)
(* extraction, the three detectors started together, scoring, reporting,    *)
(* cleanup.  A package is what the detectors' sources would find in it.     *)

Detectors == {"vulnerability", "staticAnalysis", "secrets"}

ToolOutcomes == {"ok", "missing", "timeout"}

\* analyzeMetadata
AnalyzeMetadata(packageInfo) ==
    (IF ~packageInfo.description THEN <<[severity |-> "LOW"]>> ELSE <<>>)
    \o (IF ~packageInfo.repository THEN <<[severity |-> "MEDIUM"]>> ELSE <<>>)
    \o (IF packageInfo.installDependency THEN <<[severity |-> "HIGH"]>> ELSE <<>>)

\* StaticAnalysisScanner.scan with a runSemgrep whose failure reaches the catch of scan
StaticAnalysisScanToolFatal(tool, semgrepIssues, customPatterns) ==
    IF tool = "ok" THEN semgrepIssues \o customPatterns ELSE <<>>

\* StaticAnalysisScanner.scan: the issues of runSemgrep, empty when the tool fails, then
\* the issues of scanForSuspiciousPatterns
StaticAnalysisScan(tool, semgrepIssues, customPatterns) ==
    (IF tool = "ok" THEN semgrepIssues ELSE <<>>) \o customPatterns

\* SecretsScanner.scan: the secrets of runTruffleHog, empty when the tool fails, then
\* the secrets of scanWithRegexPatterns
SecretsScan(tool, truffleHogSecrets, regexSecrets) ==
    (IF tool = "ok" THEN truffleHogSecrets ELSE <<>>) \o regexSecrets

\* VulnerabilityScanner.scan: the vulnerabilities of the audit, empty when its tool is absent
VulnerabilityScan(tool, audit) ==
    IF tool = "ok" THEN audit ELSE <<>>

\* downloadPackage with its failure swallowed
DownloadThrowsNever(outcome) == FALSE

\* downloadPackage: the catch rethrows
DownloadThrows(outcome) == outcome # "ok"

\* Promise.race in place of Promise.all
AnySettled(det) == \E d \in Detectors : det[d] = "done"

\* Promise.all: resolved when each of the three scans has resolved
AllSettled(det) == \A d \in Detectors : det[d] = "done"

\* processResults without the test of shouldCreateIssue
ReportGuardAlways(riskScore, issueCreator) == issueCreator

\* processResults: the two nested tests
ReportGuard(riskScore, issueCreator) == ShouldCreateIssue(riskScore) /\ issueCreator

\* sandbox.cleanup() called without await
FinallyDoneUnawaited(clean) == clean \in {"running", "done"}

\* finally { await sandbox.cleanup() }
FinallyDone(clean) == clean = "done"

NoRiskScore == [overall |-> "none", vulnerabilities |-> 0, codeIssues |-> 0, secrets |-> 0,
                metadataIssues |-> 0]

\* the record of one package of the run
NewScan == [download |-> "none", extract |-> "none", started |-> {}, settled |-> {},
            scored |-> 0, scoredWith |-> {}, riskScore |-> NoRiskScore, reported |-> 0,
            threw |-> FALSE, clean |-> "none"]

\* the locals of performScan
NoLocals == [det |-> [d \in Detectors |-> "idle"],
             tools |-> [d \in Detectors |-> "none"],
             order |-> <<>>,
             vulnerabilities |-> <<>>, codeIssues |-> <<>>, secrets |-> <<>>]

Pkg == batch.pkgs[batch.i]

\* scanPackage: fetchPackageInfo and the version test, before the scan
ScanPackageLookup ==
    /\ batch.op = "scanPackage"
    /\ batch.pc = "lookup"
    /\ \E found \in {"ok", "null", "mismatch"} :
          batch' = [batch EXCEPT !.pc = IF found = "ok" THEN "next" ELSE "done",
                                 !.lookup = found]
    /\ UNCHANGED <<feed, files, dvars, svars, retry, fn>>

\* for (const pkg of packages): new SafePackageHandler, performScan calls downloadPackage
BeginPackage ==
    /\ batch.op \in {"scanBatch", "scanPackage"}
    /\ batch.pc = "next"
    /\ batch.i < Len(batch.pkgs)
    /\ batch.i > 0 => FinallyDone(batch.scans[batch.i].clean)
    /\ batch' = [batch EXCEPT !.i = @ + 1, !.pc = "download",
                              !.scans = Append(@, NewScan),
                              !.locals = NoLocals]
    /\ UNCHANGED <<feed, files, dvars, svars, retry, fn>>

\* downloadPackage settles
DownloadPackage ==
    /\ batch.op \in {"scanBatch", "scanPackage"}
    /\ batch.pc = "download"
    /\ \E outcome \in {"ok", "failed"} :
          batch' = [batch EXCEPT
                       !.scans[batch.i].download = outcome,
                       !.scans[batch.i].threw = DownloadThrows(outcome),
                       !.pc = IF DownloadThrows(outcome) THEN "finally" ELSE "extract"]
    /\ UNCHANGED <<feed, files, dvars, svars, retry, fn>>

\* extractPackage and createPackageJson
ExtractPackage ==
    /\ batch.op \in {"scanBatch", "scanPackage"}
    /\ batch.pc = "extract"
    /\ \E outcome \in {"ok", "failed"} :
          batch' = [batch EXCEPT
                       !.scans[batch.i].extract = outcome,
                       !.scans[batch.i].threw = (outcome # "ok"),
                       !.pc = IF outcome = "ok" THEN "detect" ELSE "finally"]
    /\ UNCHANGED <<feed, files, dvars, svars, retry, fn>>

\* the three scan calls of the Promise.all
StartDetectors ==
    /\ batch.op \in {"scanBatch", "scanPackage"}
    /\ batch.pc = "detect"
    /\ batch' = [batch EXCEPT !.pc = "await",
                              !.locals.det = [d \in Detectors |-> "running"],
                              !.scans[batch.i].started = Detectors]
    /\ UNCHANGED <<feed, files, dvars, svars, retry, fn>>

\* a scan of the Promise.all settles: vulnerabilityScanner.scan(extractDir)
VulnerabilityScanSettles ==
    /\ batch.op \in {"scanBatch", "scanPackage"}
    /\ batch.locals.det["vulnerability"] = "running"
    /\ \E tool \in ToolOutcomes :
          batch' = [batch EXCEPT
                       !.locals.det["vulnerability"] = "done",
                       !.locals.tools["vulnerability"] = tool,
                       !.locals.order = Append(@, "vulnerability"),
                       !.locals.vulnerabilities = VulnerabilityScan(tool, Pkg.audit),
                       !.scans[batch.i].settled = @ \cup {"vulnerability"}]
    /\ UNCHANGED <<feed, files, dvars, svars, retry, fn>>

\* staticAnalysisScanner.scan(extractDir)
StaticAnalysisScanSettles ==
    /\ batch.op \in {"scanBatch", "scanPackage"}
    /\ batch.locals.det["staticAnalysis"] = "running"
    /\ \E tool \in ToolOutcomes :
          batch' = [batch EXCEPT
                       !.locals.det["staticAnalysis"] = "done",
                       !.locals.tools["staticAnalysis"] = tool,
                       !.locals.order = Append(@, "staticAnalysis"),
                       !.locals.codeIssues = StaticAnalysisScan(tool, Pkg.semgrep, Pkg.patterns),
                       !.scans[batch.i].settled = @ \cup {"staticAnalysis"}]
    /\ UNCHANGED <<feed, files, dvars, svars, retry, fn>>

\* secretsScanner.scan(extractDir)
SecretsScanSettles ==
    /\ batch.op \in {"scanBatch", "scanPackage"}
    /\ batch.locals.det["secrets"] = "running"
    /\ \E tool \in ToolOutcomes :
          batch' = [batch EXCEPT
                       !.locals.det["secrets"] = "done",
                       !.locals.tools["secrets"] = tool,
                       !.locals.order = Append(@, "secrets"),
                       !.locals.secrets = SecretsScan(tool, Pkg.truffleHog, Pkg.regex),
                       !.scans[batch.i].settled = @ \cup {"secrets"}]
    /\ UNCHANGED <<feed, files, dvars, svars, retry, fn>>

\* performScan after the Promise.all: analyzeMetadata and RiskScorer.calculateRiskScore
CalculateScore ==
    /\ batch.op \in {"scanBatch", "scanPackage"}
    /\ batch.pc = "await"
    /\ AllSettled(batch.locals.det)
    /\ \E riskScore \in {CalculateRiskScore(batch.locals.vulnerabilities, batch.locals.codeIssues,
                                           batch.locals.secrets, AnalyzeMetadata(Pkg.info))} :
          batch' = [batch EXCEPT
                       !.pc = "process",
                       !.scans[batch.i].scored = @ + 1,
                       !.scans[batch.i].scoredWith =
                           {d \in Detectors : batch.locals.det[d] = "done"},
                       !.scans[batch.i].riskScore = riskScore]
    /\ UNCHANGED <<feed, files, dvars, svars, retry, fn>>

\* processResults: createIssueForScanResult catches its own errors
ProcessResults ==
    /\ batch.op \in {"scanBatch", "scanPackage"}
    /\ batch.pc = "process"
    /\ batch' = [batch EXCEPT
                    !.pc = "finally",
                    !.scans[batch.i].reported =
                        IF ReportGuard(batch.scans[batch.i].riskScore, batch.issueCreator)
                        THEN @ + 1 ELSE @]
    /\ UNCHANGED <<feed, files, dvars, svars, retry, fn>>

\* finally: sandbox.cleanup() is called
CleanupBegin ==
    /\ batch.op \in {"scanBatch", "scanPackage"}
    /\ batch.pc = "finally"
    /\ batch' = [batch EXCEPT !.pc = "next", !.scans[batch.i].clean = "running"]
    /\ UNCHANGED <<feed, files, dvars, svars, retry, fn>>

\* cleanup settles; it catches its own errors
CleanupEnd ==
    /\ batch.op \in {"scanBatch", "scanPackage"}
    /\ \E j \in 1 .. Len(batch.scans) :
          /\ batch.scans[j].clean = "running"
          /\ batch' = [batch EXCEPT !.scans[j].clean = "done"]
    /\ UNCHANGED <<feed, files, dvars, svars, retry, fn>>

\* the loop is over and the call returns
EndBatch ==
    /\ batch.op \in {"scanBatch", "scanPackage"}
    /\ batch.pc = "next"
    /\ batch.i = Len(batch.pkgs)
    /\ FinallyDone(batch.scans[batch.i].clean)
    /\ batch' = [batch EXCEPT !.pc = "done"]
    /\ UNCHANGED <<feed, files, dvars, svars, retry, fn>>

-----------------------------------------------------------------------------
(* Specification of scanBatch and scanPackage *)

MaxBatch == 2               \* packages of a batch

ContentPlain ==
    [info |-> [description |-> FALSE, repository |-> TRUE, installDependency |-> FALSE],
     audit |-> <<>>, semgrep |-> <<>>, patterns |-> <<>>, truffleHog |-> <<>>, regex |-> <<>>]

ContentVulnerable ==
    [info |-> [description |-> TRUE, repository |-> TRUE, installDependency |-> FALSE],
     audit |-> <<[severity |-> "CRITICAL"]>>,
     semgrep |-> <<>>, patterns |-> <<>>, truffleHog |-> <<>>, regex |-> <<>>]

ContentSuspicious ==
    [info |-> [description |-> TRUE, repository |-> TRUE, installDependency |-> FALSE],
     audit |-> <<>>,
     semgrep |-> <<[severity |-> "HIGH", rule |-> RuleSemgrepObfuscation]>>,
     patterns |-> <<[severity |-> "LOW", rule |-> RuleEnvAccess]>>,
     truffleHog |-> <<[confidence |-> "MEDIUM", type |-> "Github"]>>,
     regex |-> <<[confidence |-> "LOW", type |-> "Generic Secret"]>>]

Contents == {ContentPlain, ContentVulnerable, ContentSuspicious}

Batches == UNION {[1 .. n -> Contents] : n \in 1 .. MaxBatch}

BatchInit ==
    /\ feed = <<>>
    /\ seqFile = NoSeqFile
    /\ discFile = <<>>
    /\ discNewFile = <<>>
    /\ scanFile = <<>>
    /\ scanNewFile = <<>>
    /\ dpc = "idle"
    /\ state = IdleState
    /\ newDiscoveredPackages = <<>>
    /\ packages = <<>>
    /\ drun = IdleRun
    /\ dhist = [quiet |-> FALSE, plain |-> FALSE, recorded |-> {}, threw |-> FALSE,
               failed |-> FALSE]
    /\ spc = "idle"
    /\ pending = <<>>
    /\ srun = IdleScanRun
    /\ shist = NoScanHist
    /\ retry = NoRetry
    /\ fn = NoCall
    /\ \E issueCreator \in BOOLEAN :
          \/ \E pkgs \in Batches :
                batch = [op |-> "scanBatch", pc |-> "next", lookup |-> "none",
                         issueCreator |-> issueCreator, pkgs |-> pkgs, i |-> 0,
                         scans |-> <<>>, locals |-> NoLocals]
          \/ \E pkg \in Contents :
                batch = [op |-> "scanPackage", pc |-> "lookup", lookup |-> "none",
                         issueCreator |-> issueCreator, pkgs |-> <<pkg>>, i |-> 0,
                         scans |-> <<>>, locals |-> NoLocals]

BatchNext ==
    \/ ScanPackageLookup
    \/ BeginPackage
    \/ DownloadPackage
    \/ ExtractPackage
    \/ StartDetectors
    \/ VulnerabilityScanSettles
    \/ StaticAnalysisScanSettles
    \/ SecretsScanSettles
    \/ CalculateScore
    \/ ProcessResults
    \/ CleanupBegin
    \/ CleanupEnd
    \/ EndBatch

BatchSpec == BatchInit /\ [][BatchNext]_vars

-----------------------------------------------------------------------------
(* Claims about discovery, checked under Spec *)

\* the identifiers durably recorded as discovered, in either file
DurableDiscovered == Elems(discFile) \cup Elems(discNewFile)

\* C1: the cursor persisted by a discovery run is greater than or equal to the cursor
\* the run loaded, for every feed response.
C1_CursorMonotone ==
    dpc = "saved" => seqFile.value >= drun.loadedSeq

\* C2: at every point of a discovery run where the process may die, the durable state
\* is either the cursor as loaded, or the advanced cursor with every newly discovered
\* identifier of the page recorded.
C2_AtomicCommit ==
    dpc \in {"walked", "saved"} =>
        \/ seqFile.value = drun.loadedSeq
        \/ /\ seqFile.value = state.lastSequence
           /\ Elems(newDiscoveredPackages) \subseteq DurableDiscovered

\* C3 (as stated): the second of two discovery runs in a row, with the feed and the
\* registry unchanged in between, discovers nothing and persists the cursor it loaded.
\* Stated for the runs in which no lookup fails and the feed reports last_seq as the
\* seq of the last entry it returned.
C3_Idempotent ==
    (dpc = "saved" /\ drun.second /\ dhist.plain /\ drun.plain) =>
        /\ newDiscoveredPackages = <<>>
        /\ seqFile.value = drun.loadedSeq

\* C3 (amended): the same, when the cursor persisted by the first run is at or past
\* the last entry of the feed.
C3_IdempotentDrained ==
    (dpc = "saved" /\ drun.second /\ drun.drained) =>
        /\ newDiscoveredPackages = <<>>
        /\ seqFile.value = drun.loadedSeq

C3_Witness ==
    /\ dpc = "saved"
    /\ drun.second
    /\ drun.drained
    /\ Len(feed) >= FeedLimit
    /\ dhist.recorded # {}

\* C4: of the feed entries of one run that resolve to the same name@version, one
\* identifier is added and one package returned; an identifier of the loaded
\* discovered set adds nothing.
C4_Dedup ==
    dpc \in {"walked", "saved"} =>
        /\ NoDup(newDiscoveredPackages)
        /\ Elems(newDiscoveredPackages) \cap drun.loaded = {}
        /\ FullPackageIds(packages) = newDiscoveredPackages

C4_Witness ==
    /\ dpc = "walked"
    /\ drun.dup \cap Elems(newDiscoveredPackages) # {}
    /\ drun.pageLen = FeedLimit

\* C5: an identifier recorded by one discovery run is in the discovered set loaded
\* by every later run.
C5_DiscoveredOnlyGrows ==
    dpc \in {"walked", "saved"} => dhist.recorded \subseteq drun.loaded

-----------------------------------------------------------------------------
(* Claims about the scan-pending command, checked under ScanSpec *)

\* C6: a package whose scan failed is not among the identifiers passed to
\* markPackagesScanned.
C6_FailedNotMarked ==
    Elems(shist.passed) \cap shist.failed = {}

\* C7: a failure while scanning or reporting one package never aborts scanBatch:
\* it returns normally with every package of the list scanned.
C7_BatchIsolated ==
    /\ shist.ret # "aborted"
    /\ spc = "scanned" => Len(srun.results) = Len(pending)

C7_Witness ==
    /\ spc = "scanned"
    /\ Len(pending) = MAX_PACKAGES_PER_RUN
    /\ srun.results[1] # "ok"
    /\ srun.results[Len(pending)] = "ok"

C9_MarkedStaysScanned ==
    shist.marked \subseteq Elems(LoadScanningState(scanFile))

\* C10: when every scan and every commit succeeds, repeated scan-pending runs lead to
\* getPendingScans returning an empty list.
C10_EventuallyNoPending ==
    <>(\/ shist.anyFail
       \/ GetPendingScans(LoadDiscoveredPackages(discFile), LoadScanningState(scanFile)) = <<>>)

\* C13: no failure while loading discovery state makes a discovery run fail:
\* getLatestChanges returns normally.
C13_LoadNeverFatal ==
    ~dhist.threw

\* C14: when no prior state exists, the loaded discovered set is empty and the loaded
\* cursor is the feed's current high-water mark, hence not 0 when the feed has entries.
C14_ColdStartAtHighWater ==
    (dpc \in {"walked", "saved"} /\ drun.cold) =>
        /\ drun.loaded = {}
        /\ drun.loadedSeq = Len(feed)

\* the page the running discovery run received
RunPage == FeedResults(SinceParam(drun.loadedSeq))

\* C15: a run over a page of N >= 1 entries that all resolve to identifiers of the
\* loaded discovered set adds no identifier and commits the page's high-water mark:
\* last_seq when the response carries one, otherwise the largest seq of the page.
C15_AllDuplicatesAdvance ==
    (/\ dpc = "saved"
     /\ drun.pageLen >= 1
     /\ drun.allOk
     /\ \A i \in DOMAIN RunPage :
           /\ ~RunPage[i].deleted
           /\ RunPage[i].id \in Names
           /\ Format(RunPage[i].id, Latest(RunPage[i].id)) \in drun.loaded)
    => /\ newDiscoveredPackages = <<>>
       /\ seqFile.value = IF drun.lastSeq # 0 THEN drun.lastSeq
                          ELSE RunPage[Len(RunPage)].seq

C15_Witness ==
    /\ dpc = "saved"
    /\ drun.pageLen >= 2
    /\ drun.allOk
    /\ \A i \in DOMAIN RunPage :
          /\ ~RunPage[i].deleted
          /\ RunPage[i].id \in Names
          /\ Format(RunPage[i].id, Latest(RunPage[i].id)) \in drun.loaded
    /\ drun.lastSeq = 0

\* the identifiers the entries of the page that are not deleted can resolve to
LiveIds ==
    {Format(RunPage[i].id, v) : i \in {j \in DOMAIN RunPage : ~RunPage[j].deleted},
                                v \in {V1, V2}}

\* C16: a deleted feed entry adds no identifier, is not resolved or returned, and does
\* not count toward the per-run cap.
C16_DeletedSkipped ==
    dpc \in {"walked", "saved"} =>
        LET live == LiveIds IN
        /\ Elems(newDiscoveredPackages) \subseteq live
        /\ drun.resolved \subseteq live
        /\ Elems(FullPackageIds(packages)) \subseteq live
        /\ drun.stop =>
              Cardinality({j \in DOMAIN RunPage : ~RunPage[j].deleted}) >= MAX_PACKAGES_PER_RUN

C16_Witness ==
    /\ dpc = "walked"
    /\ \E i \in DOMAIN RunPage : RunPage[i].deleted /\ RunPage[i].id = NameA
    /\ newDiscoveredPackages = <<IdB1>>
    /\ drun.pageLen = FeedLimit

\* C17: when the response carries no last_seq, the committed cursor is the maximum of
\* the loaded cursor and the seq of every entry walked, skipped entries included.
C17_CursorIsMaxWalked ==
    (dpc = "saved" /\ drun.lastSeq = 0) =>
        seqFile.value = Max(drun.loadedSeq, SinceParam(drun.loadedSeq) + drun.walked)

-----------------------------------------------------------------------------
(* Claims about the scan-pending command, continued *)

\* C11: in a scan-pending run, when an attempt to persist the scanned identifiers
\* fails and a later attempt within the retry count would succeed, the identifiers are
\* recorded and the run does not fail.
C11_CommitRetried ==
    ~(shist.ret = "threw" /\ shist.laterOk)

-----------------------------------------------------------------------------
(* Claims about markPackagesScannedWithRetry, checked under RetrySpec *)

\* C12: for every n >= 1, markPackagesScannedWithRetry(packages, n) calls
\* markPackagesScanned at most n times, makes no attempt after the first one that
\* succeeds, and raises the error of the last attempt exactly when all n attempts fail.
C12_RetryBounded ==
    retry.pc # "none" /\ retry.maxRetries >= 1 =>
        /\ Len(retry.outcomes) <= retry.maxRetries
        /\ \A i \in 1 .. Len(retry.outcomes) - 1 : retry.outcomes[i] # "ok"
        /\ retry.pc \in {"returned", "threw"} =>
              /\ retry.pc = "threw" <=>
                    /\ Len(retry.outcomes) = retry.maxRetries
                    /\ \A i \in DOMAIN retry.outcomes : retry.outcomes[i] # "ok"
              /\ retry.pc = "threw" => retry.thrown = retry.outcomes[retry.maxRetries]
              /\ retry.pc = "returned" => retry.thrown = "none"

C12_Witness ==
    /\ retry.pc = "threw"
    /\ retry.maxRetries = MaxRetriesArg
    /\ retry.outcomes[1] # retry.thrown

-----------------------------------------------------------------------------
(* Claims about parsePackageId, checked under ParseSpec *)

\* C18: for every name, unscoped or of the form @scope/pkg, and every version,
\* parsePackageId applied to name@version returns exactly (name, version).
C18_ParseRoundTrip ==
    (fn.op = "parsePackageId" /\ fn.pc = "done") =>
        /\ fn.result.name = fn.name
        /\ fn.result.version = fn.version

C18_Witness ==
    /\ fn.op = "parsePackageId"
    /\ fn.pc = "done"
    /\ fn.name \in ScopedNames
    /\ Len(fn.name) = 2 * MaxNameLen + 2
    /\ Len(fn.version) = MaxVersionLen

-----------------------------------------------------------------------------
(* Claims about the RiskScorer, checked under RiskSpec *)

\* the number of elements of seq that satisfy P
CountOf(seq, P(_)) == Cardinality({i \in DOMAIN seq : P(seq[i])})

\* the category of a rule, as the rules of the scanners are meant
RefRuleTenths(rule) ==
    CASE rule = RuleEvalUsage -> 20
      [] rule = RuleSemgrepObfuscation -> 15
      [] OTHER -> 10

RefSecretTenths(type) ==
    CASE type = "AWS Access Key" -> 25
      [] type = "Slack Token" -> 20
      [] OTHER -> 10

\* the reference total, in tenths of a point, from the number of findings of each kind
RefTotalTenths ==
      400 * CountOf(fn.vulnerabilities, LAMBDA v : v.severity = "CRITICAL")
    + 200 * CountOf(fn.vulnerabilities, LAMBDA v : v.severity = "HIGH")
    + 80 * CountOf(fn.vulnerabilities, LAMBDA v : v.severity = "MEDIUM")
    + 20 * CountOf(fn.vulnerabilities, LAMBDA v : v.severity = "LOW")
    + 15 * (20 * CountOf(fn.codeIssues, LAMBDA c : c.severity = "HIGH" /\ RefRuleTenths(c.rule) = 20)
            + 15 * CountOf(fn.codeIssues, LAMBDA c : c.severity = "HIGH" /\ RefRuleTenths(c.rule) = 15)
            + 10 * CountOf(fn.codeIssues, LAMBDA c : c.severity = "HIGH" /\ RefRuleTenths(c.rule) = 10))
    + 5 * (20 * CountOf(fn.codeIssues, LAMBDA c : c.severity = "MEDIUM" /\ RefRuleTenths(c.rule) = 20)
           + 15 * CountOf(fn.codeIssues, LAMBDA c : c.severity = "MEDIUM" /\ RefRuleTenths(c.rule) = 15)
           + 10 * CountOf(fn.codeIssues, LAMBDA c : c.severity = "MEDIUM" /\ RefRuleTenths(c.rule) = 10))
    + 1 * (20 * CountOf(fn.codeIssues, LAMBDA c : c.severity = "LOW" /\ RefRuleTenths(c.rule) = 20)
           + 15 * CountOf(fn.codeIssues, LAMBDA c : c.severity = "LOW" /\ RefRuleTenths(c.rule) = 15)
           + 10 * CountOf(fn.codeIssues, LAMBDA c : c.severity = "LOW" /\ RefRuleTenths(c.rule) = 10))
    + 25 * (25 * CountOf(fn.secrets, LAMBDA x : x.confidence = "HIGH" /\ RefSecretTenths(x.type) = 25)
            + 20 * CountOf(fn.secrets, LAMBDA x : x.confidence = "HIGH" /\ RefSecretTenths(x.type) = 20)
            + 10 * CountOf(fn.secrets, LAMBDA x : x.confidence = "HIGH" /\ RefSecretTenths(x.type) = 10))
    + 10 * (25 * CountOf(fn.secrets, LAMBDA x : x.confidence = "MEDIUM" /\ RefSecretTenths(x.type) = 25)
            + 20 * CountOf(fn.secrets, LAMBDA x : x.confidence = "MEDIUM" /\ RefSecretTenths(x.type) = 20)
            + 10 * CountOf(fn.secrets, LAMBDA x : x.confidence = "MEDIUM" /\ RefSecretTenths(x.type) = 10))
    + 3 * (25 * CountOf(fn.secrets, LAMBDA x : x.confidence = "LOW" /\ RefSecretTenths(x.type) = 25)
           + 20 * CountOf(fn.secrets, LAMBDA x : x.confidence = "LOW" /\ RefSecretTenths(x.type) = 20)
           + 10 * CountOf(fn.secrets, LAMBDA x : x.confidence = "LOW" /\ RefSecretTenths(x.type) = 10))
    + 100 * CountOf(fn.metadataIssues, LAMBDA m : m.severity = "HIGH")
    + 50 * CountOf(fn.metadataIssues, LAMBDA m : m.severity = "MEDIUM")
    + 10 * CountOf(fn.metadataIssues, LAMBDA m : m.severity = "LOW")

RefLevel ==
    CASE RefTotalTenths >= 800 -> "CRITICAL"
      [] RefTotalTenths < 800 /\ RefTotalTenths >= 400 -> "HIGH"
      [] RefTotalTenths < 400 /\ RefTotalTenths >= 150 -> "MEDIUM"
      [] OTHER -> "LOW"

\* C19: the level returned by calculateRiskScore is the level of the reference total
\* (>= 80 CRITICAL, >= 40 HIGH, >= 15 MEDIUM, otherwise LOW), and the four counts are
\* the sizes of the four collections.
C19_LevelOfReferenceTotal ==
    (fn.op = "calculateRiskScore" /\ fn.pc \in {"scored", "decided"}) =>
        /\ fn.result.overall = RefLevel
        /\ fn.result.vulnerabilities = Len(fn.vulnerabilities)
        /\ fn.result.codeIssues = Len(fn.codeIssues)
        /\ fn.result.secrets = Len(fn.secrets)
        /\ fn.result.metadataIssues = Len(fn.metadataIssues)

\* one MEDIUM eval-usage issue (10) and one HIGH AWS Access Key secret (62.5): HIGH
C19_Witness ==
    /\ fn.op = "calculateRiskScore"
    /\ fn.pc = "scored"
    /\ fn.vulnerabilities = <<>>
    /\ fn.codeIssues = <<[severity |-> "MEDIUM", rule |-> RuleEvalUsage]>>
    /\ fn.secrets = <<[confidence |-> "HIGH", type |-> "AWS Access Key"]>>
    /\ fn.metadataIssues = <<>>
    /\ fn.result.overall = "HIGH"

\* C20: shouldCreateIssue is true exactly for CRITICAL and HIGH, and for MEDIUM with
\* at least one vulnerability or secret; it is false for every score of level LOW.
C20_ReportingPredicate ==
    (fn.op = "calculateRiskScore" /\ fn.pc = "decided") =>
        CASE fn.result.overall = "LOW" -> ~fn.decision
          [] fn.result.overall = "MEDIUM" ->
                fn.decision <=> (fn.result.vulnerabilities + fn.result.secrets > 0)
          [] OTHER -> fn.decision

C20_Witness ==
    /\ fn.op = "calculateRiskScore"
    /\ fn.pc = "decided"
    /\ fn.result.overall = "MEDIUM"
    /\ fn.result.vulnerabilities = 0
    /\ fn.result.secrets = 0
    /\ fn.result.codeIssues > 0
    /\ ~fn.decision

-----------------------------------------------------------------------------
(* Claims about reporting and monotonicity, checked under RiskSpec *)

\* C21 (as stated): every finding set that holds at least one vulnerability or at
\* least one secret is reported.
C21_NeverSuppressed ==
    (fn.pc = "decided" /\ (Len(fn.vulnerabilities) > 0 \/ Len(fn.secrets) > 0)) =>
        fn.decision

\* C21 (amended): every finding set that holds at least one vulnerability or at least
\* one secret, and whose level is MEDIUM or higher, is reported.
C21_NeverSuppressedFromMedium ==
    (/\ fn.pc = "decided"
     /\ Len(fn.vulnerabilities) > 0 \/ Len(fn.secrets) > 0
     /\ fn.result.overall # "LOW") =>
        fn.decision

\* a lone MEDIUM-confidence cloud access key: 25 points, level MEDIUM, reported
C21_Witness ==
    /\ fn.pc = "decided"
    /\ fn.vulnerabilities = <<>>
    /\ fn.secrets = <<[confidence |-> "MEDIUM", type |-> "AWS Access Key"]>>
    /\ fn.result.overall = "MEDIUM"
    /\ fn.decision

LevelRank(level) ==
    CASE level = "LOW" -> 0
      [] level = "MEDIUM" -> 1
      [] level = "HIGH" -> 2
      [] level = "CRITICAL" -> 3

\* C22: with one CRITICAL vulnerability added to a finding set, the level is not lower
\* than without it, and a finding set that was reported is still reported.
C22_CriticalMonotone ==
    fn.pc = "compared" =>
        /\ LevelRank(fn.more.overall) >= LevelRank(fn.result.overall)
        /\ fn.decision => fn.moreDecision

\* two HIGH vulnerabilities are at 40, HIGH and reported; a CRITICAL one lifts them to
\* CRITICAL
C22_Witness ==
    /\ fn.pc = "compared"
    /\ fn.vulnerabilities = <<[severity |-> "HIGH"], [severity |-> "HIGH"]>>
    /\ fn.result.overall = "HIGH"
    /\ fn.decision
    /\ fn.more.overall = "CRITICAL"
    /\ fn.more.vulnerabilities = 3
    /\ fn.moreDecision

\* C24: one MEDIUM code issue of rule eval-usage and one HIGH-confidence secret of
\* type AWS Access Key, and nothing else, total 72.5 points (145 half points), are of
\* level HIGH and are reported.
C24_Scenario ==
    (/\ fn.pc \in {"scored", "decided", "compared"}
     /\ fn.vulnerabilities = <<>>
     /\ fn.metadataIssues = <<>>
     /\ fn.codeIssues = <<[severity |-> "MEDIUM", rule |-> RuleEvalUsage]>>
     /\ fn.secrets = <<[confidence |-> "HIGH", type |-> "AWS Access Key"]>>) =>
        /\ ScoreCodeIssues(fn.codeIssues) = 2 * 10
        /\ ScoreSecrets(fn.secrets) = 125
        /\ ScoreVulnerabilities(fn.vulnerabilities) + ScoreCodeIssues(fn.codeIssues)
             + ScoreSecrets(fn.secrets) + ScoreMetadataIssues(fn.metadataIssues) = 145
        /\ fn.result.overall = "HIGH"
        /\ fn.pc # "scored" => fn.decision

C24_Witness ==
    /\ fn.pc = "decided"
    /\ fn.vulnerabilities = <<>>
    /\ fn.metadataIssues = <<>>
    /\ fn.codeIssues = <<[severity |-> "MEDIUM", rule |-> RuleEvalUsage]>>
    /\ fn.secrets = <<[confidence |-> "HIGH", type |-> "AWS Access Key"]>>
    /\ fn.result.overall = "HIGH"
    /\ fn.decision

-----------------------------------------------------------------------------
(* Claims about the scan of a package, checked under BatchSpec *)

\* C25: the reporter is invoked for a package only when that package's scan computed
\* a score, once, for which shouldCreateIssue holds; never for level LOW and never for
\* a package whose scan failed.
C25_ReportOnlyWhenDecided ==
    \A j \in 1 .. Len(batch.scans) :
        batch.scans[j].reported > 0 =>
            /\ batch.scans[j].reported = 1
            /\ batch.scans[j].scored = 1
            /\ ShouldCreateIssue(batch.scans[j].riskScore)
            /\ batch.scans[j].riskScore.overall \in {"MEDIUM", "HIGH", "CRITICAL"}
            /\ ~batch.scans[j].threw
            /\ batch.scans[j].download = "ok"
            /\ batch.scans[j].extract = "ok"

\* a batch of two scored packages with a reporter: the first, of level LOW, was not
\* reported, the second was
C25_Witness ==
    /\ batch.op = "scanBatch"
    /\ batch.pc = "done"
    /\ batch.issueCreator
    /\ Len(batch.scans) = 2
    /\ batch.scans[1].scored = 1
    /\ batch.scans[1].riskScore.overall = "LOW"
    /\ batch.scans[1].reported = 0
    /\ batch.scans[2].riskScore.overall = "HIGH"
    /\ batch.scans[2].reported = 1

\* C26: when the download of a package has begun, the cleanup of every earlier package
\* of the run has been called and has finished, whether that package's scan succeeded
\* or failed.
C26_CleanupBeforeNextDownload ==
    \A j \in 1 .. Len(batch.scans) :
        j < batch.i => batch.scans[j].clean = "done"

\* the second download is in flight after a first scan that failed
C26_Witness ==
    /\ batch.op = "scanBatch"
    /\ batch.i = 2
    /\ batch.pc = "download"
    /\ batch.scans[1].threw
    /\ batch.scans[1].clean = "done"

\* the findings of the running package's scan, from what the package holds and from
\* what became of each detector's tool
ExpectedRiskScore ==
    CalculateRiskScore(VulnerabilityScan(batch.locals.tools["vulnerability"], Pkg.audit),
                       StaticAnalysisScan(batch.locals.tools["staticAnalysis"],
                                          Pkg.semgrep, Pkg.patterns),
                       SecretsScan(batch.locals.tools["secrets"], Pkg.truffleHog, Pkg.regex),
                       AnalyzeMetadata(Pkg.info))

\* C27: in whatever order the three detector calls settle, the score of a package is
\* computed at most once and only when all three have settled, it is computed once
\* when they have all settled and the scan moves on, and it is the score of the three
\* detectors' findings, the same for every order.
C27_ScoreAfterAllDetectors ==
    /\ \A j \in 1 .. Len(batch.scans) :
           /\ batch.scans[j].scored <= 1
           /\ batch.scans[j].scored = 1 => batch.scans[j].scoredWith = Detectors
    /\ (batch.i > 0 /\ batch.scans[batch.i].started = Detectors /\ batch.pc # "await") =>
           /\ batch.scans[batch.i].scored = 1
           /\ batch.scans[batch.i].riskScore = ExpectedRiskScore

\* the detectors settled in the reverse of the order of their calls
C27_Witness ==
    /\ batch.pc = "process"
    /\ Pkg = ContentSuspicious
    /\ batch.locals.order = <<"secrets", "staticAnalysis", "vulnerability">>
    /\ \A d \in Detectors : batch.locals.tools[d] = "ok"
    /\ batch.scans[batch.i].scored = 1
    /\ batch.scans[batch.i].riskScore.overall = "MEDIUM"
    /\ batch.scans[batch.i].riskScore.codeIssues = 2
    /\ batch.scans[batch.i].riskScore.secrets = 2

\* C28: when Semgrep or TruffleHog is missing, fails or times out, the detector's scan
\* still resolves, with the findings of its own patterns alone, and the package is
\* scored.
C28_ToolFailureDegrades ==
    batch.i > 0 =>
        /\ (batch.locals.det["staticAnalysis"] = "done"
             /\ batch.locals.tools["staticAnalysis"] # "ok") =>
                batch.locals.codeIssues = Pkg.patterns
        /\ (batch.locals.det["secrets"] = "done" /\ batch.locals.tools["secrets"] # "ok") =>
                batch.locals.secrets = Pkg.regex
        /\ (batch.scans[batch.i].started = Detectors /\ batch.pc # "await") =>
                /\ ~batch.scans[batch.i].threw
                /\ batch.scans[batch.i].scored = 1
                /\ batch.locals.tools["staticAnalysis"] # "ok" =>
                       batch.scans[batch.i].riskScore.codeIssues = Len(Pkg.patterns)
                /\ batch.locals.tools["secrets"] # "ok" =>
                       batch.scans[batch.i].riskScore.secrets = Len(Pkg.regex)

\* Semgrep timed out and TruffleHog is missing; the package is scored on its own
\* patterns' findings
C28_Witness ==
    /\ batch.pc = "process"
    /\ Pkg = ContentSuspicious
    /\ batch.locals.tools["staticAnalysis"] = "timeout"
    /\ batch.locals.tools["secrets"] = "missing"
    /\ batch.locals.codeIssues = <<[severity |-> "LOW", rule |-> RuleEnvAccess]>>
    /\ batch.locals.secrets = <<[confidence |-> "LOW", type |-> "Generic Secret"]>>
    /\ batch.scans[batch.i].scored = 1
    /\ batch.scans[batch.i].riskScore.overall = "LOW"

\* C29: a package whose download failed is not extracted, no detector runs on it, it
\* gets no score and no report; its working directory is still cleaned up and every
\* package of the run is attempted.
C29_DownloadFailureAborts ==
    /\ \A j \in 1 .. Len(batch.scans) :
           batch.scans[j].download = "failed" =>
               /\ batch.scans[j].extract = "none"
               /\ batch.scans[j].started = {}
               /\ batch.scans[j].settled = {}
               /\ batch.scans[j].scored = 0
               /\ batch.scans[j].reported = 0
               /\ j < batch.i \/ batch.pc = "done" => batch.scans[j].clean = "done"
    /\ (batch.pc = "done" /\ batch.lookup \in {"none", "ok"}) =>
           /\ Len(batch.scans) = Len(batch.pkgs)
           /\ \A j \in 1 .. Len(batch.scans) : batch.scans[j].download # "none"

\* the first download failed and the second package was scored and reported
C29_Witness ==
    /\ batch.pc = "done"
    /\ Len(batch.scans) = 2
    /\ batch.scans[1].download = "failed"
    /\ batch.scans[1].clean = "done"
    /\ batch.scans[2].download = "ok"
    /\ batch.scans[2].scored = 1
    /\ batch.scans[2].reported = 1

-----------------------------------------------------------------------------
(* Claim about failed lookups, checked under Spec *)

\* C30: in a discovery run where the lookup of an entry fails, the walk goes on to the
\* end of the page unless the cap of new packages stops it, the cursor moves as for a
\* page without failure (to last_seq when the response carries one, otherwise to or
\* past the seq of the entry whose lookup failed, and not behind the loaded cursor),
\* the run does not raise, and what it commits is that cursor.
C30_FailedLookupSkipped ==
    (dpc \in {"walked", "saved"} /\ drun.lastFailed > 0) =>
        /\ drun.walked = drun.pageLen \/ drun.stop
        /\ IF drun.lastSeq # 0 THEN state.lastSequence = drun.lastSeq
           ELSE /\ state.lastSequence >= RunPage[drun.lastFailed].seq
                /\ state.lastSequence >= drun.loadedSeq
        /\ ~dhist.threw
        /\ dpc = "saved" => seqFile.value = state.lastSequence

\* the first lookup of the page failed, a later entry was discovered, and the cursor
\* was committed past both
C30_Witness ==
    /\ dpc = "saved"
    /\ drun.lastFailed = 1
    /\ drun.pageLen = 2
    /\ drun.walked = 2
    /\ drun.lastSeq = 0
    /\ Len(newDiscoveredPackages) = 1
    /\ seqFile.value = RunPage[2].seq

-----------------------------------------------------------------------------
(* Claims about the cap, the frame of each phase and the identifiers *)

\* C31: a discovery run adds at most MAX_PACKAGES_PER_RUN identifiers to the discovered
\* set and returns at most as many packages; when the count reaches the cap the walk
\* has stopped, and no entry after the one that reached the cap was resolved.
C31_CapRespected ==
    dpc \in {"walked", "saved"} =>
        /\ Len(newDiscoveredPackages) <= MAX_PACKAGES_PER_RUN
        /\ Cardinality(state.discoveredPackages \ drun.loaded) <= MAX_PACKAGES_PER_RUN
        /\ Len(packages) <= MAX_PACKAGES_PER_RUN
        /\ Len(newDiscoveredPackages) = MAX_PACKAGES_PER_RUN => drun.stop
        /\ \A id \in drun.resolved :
              \E i \in 1 .. drun.walked, v \in {V1, V2, Undefined, Missing} :
                  id = Format(RunPage[i].id, v)

\* a run that reached the cap and committed
C31_Witness ==
    /\ dpc = "saved"
    /\ drun.stop
    /\ Len(newDiscoveredPackages) = MAX_PACKAGES_PER_RUN
    /\ Len(packages) = MAX_PACKAGES_PER_RUN

-----------------------------------------------------------------------------
(* Specification of the two phases side by side: a discovery run and a      *)
(* scan-pending command on the same data directory, their steps interleaved *)

PhaseInit ==
    /\ feed \in {<<[id |-> NameA, deleted |-> FALSE]>>,
                 <<[id |-> NameA, deleted |-> FALSE], [id |-> NameB, deleted |-> FALSE]>>}
    /\ seqFile \in {NoSeqFile, SeqFileOf(0)}
    /\ discFile \in {<<>>, <<IdA1>>, <<IdA2, IdB1>>}
    /\ discNewFile = <<>>
    /\ scanFile \in {<<>>, <<IdA2>>}
    /\ scanNewFile = <<>>
    /\ dpc = "idle"
    /\ state = IdleState
    /\ newDiscoveredPackages = <<>>
    /\ packages = <<>>
    /\ drun = IdleRun
    /\ dhist = [quiet |-> FALSE, plain |-> FALSE, recorded |-> {}, threw |-> FALSE,
               failed |-> FALSE]
    /\ spc = "idle"
    /\ pending = <<>>
    /\ srun = IdleScanRun
    /\ shist = NoScanHist
    /\ retry = NoRetry
    /\ fn = NoCall
    /\ batch = NoBatch

PhaseNext ==
    \/ DiscoverLoadThrows
    \/ DiscoverRequestFails
    \/ DiscoverWalk
    \/ DiscoverSaveSeq
    \/ DiscoverAppend
    \/ DiscoverCrash
    \/ ScanPendingLoadThrows
    \/ ScanPendingBegin
    \/ ScanOne
    \/ MarkPackagesScanned

PhaseSpec == PhaseInit /\ [][PhaseNext]_vars

\* C32: the step of markPackagesScanned, whether its write succeeds or fails, leaves
\* the cursor file and both discovered files as they were, and every step that is not
\* one of the scan command, so every step of a discovery run, its failures and its
\* crash included, leaves both scanned files as they were.
C32_IndependentDomains ==
    [][/\ (spc = "scanned" /\ spc' = "idle") => UNCHANGED <<seqFile, discFile, discNewFile>>
       /\ UNCHANGED svars => UNCHANGED <<scanFile, scanNewFile>>]_vars

\* the scanned identifiers were committed while a discovery run stood between its two
\* writes, and the cursor and the discovered files are as that run left them
C32_Witness ==
    /\ dpc = "saved"
    /\ shist.ret = "returned"
    /\ scanNewFile # <<>>
    /\ discNewFile = <<>>
    /\ seqFile.value = state.lastSequence
    /\ seqFile.value > 0

\* C33: the step in which the scan command calls getPendingScans leaves the cursor
\* file and both discovered files as they were, also when no cursor file exists.
C33_PendingScansReadOnly ==
    [][(spc = "idle" /\ svars' # svars) => UNCHANGED <<seqFile, discFile, discNewFile>>]_vars

-----------------------------------------------------------------------------
(* GitHubIssueCreator.createIssueForScanResult against the issue tracker:   *)
(* fn.created and fn.updated count, for each package@version, the issues    *)
(* created and the updates made in the repository                           *)

MaxReports == 3             \* calls of createIssueForScanResult

ReportedIds == {IdA1, IdB1}

\* findExistingIssue: the first issue whose title holds name@version, null when there
\* is none and null when the search fails
FindExistingIssue(search, created) ==
    IF search = "error" THEN "null"
    ELSE IF created > 0 THEN "issue" ELSE "null"

\* lines 16-21: the call begins and awaits findExistingIssue
ReportSearch ==
    /\ fn.op = "createIssueForScanResult"
    /\ fn.pc = "idle"
    /\ fn.calls < MaxReports
    /\ \E id \in ReportedIds, search \in {"ok", "error"} :
          fn' = [fn EXCEPT !.pc = "searched", !.calls = @ + 1, !.id = id,
                           !.search = search,
                           !.existing = FindExistingIssue(search, fn.created[id])]
    /\ UNCHANGED <<feed, files, dvars, svars, retry, batch>>

\* lines 23-38: update the issue found, or create one; an API error is caught and logged
ReportWrite ==
    /\ fn.op = "createIssueForScanResult"
    /\ fn.pc = "searched"
    /\ \E api \in {"ok", "error"} :
          fn' = [fn EXCEPT
                    !.pc = "idle",
                    !.updated[fn.id] = IF fn.existing = "issue" /\ api = "ok" THEN @ + 1 ELSE @,
                    !.created[fn.id] = IF fn.existing = "null" /\ api = "ok" THEN @ + 1 ELSE @]
    /\ UNCHANGED <<feed, files, dvars, svars, retry, batch>>

ReportInit ==
    /\ feed = <<>>
    /\ seqFile = NoSeqFile
    /\ discFile = <<>>
    /\ discNewFile = <<>>
    /\ scanFile = <<>>
    /\ scanNewFile = <<>>
    /\ dpc = "idle"
    /\ state = IdleState
    /\ newDiscoveredPackages = <<>>
    /\ packages = <<>>
    /\ drun = IdleRun
    /\ dhist = [quiet |-> FALSE, plain |-> FALSE, recorded |-> {}, threw |-> FALSE,
               failed |-> FALSE]
    /\ spc = "idle"
    /\ pending = <<>>
    /\ srun = IdleScanRun
    /\ shist = NoScanHist
    /\ retry = NoRetry
    /\ batch = NoBatch
    /\ fn = [op |-> "createIssueForScanResult", pc |-> "idle", calls |-> 0, id |-> <<>>,
             search |-> "none", existing |-> "null",
             created |-> [id \in ReportedIds |-> 0],
             updated |-> [id \in ReportedIds |-> 0]]

ReportNext ==
    \/ ReportSearch
    \/ ReportWrite

ReportSpec == ReportInit /\ [][ReportNext]_vars

\* C34: whatever the number of calls of createIssueForScanResult for a package@version
\* and whatever the outcome of the issue search, at most one issue is created for it.
C34_OneIssuePerIdentity ==
    fn.op = "createIssueForScanResult" =>
        \A id \in ReportedIds : fn.created[id] <= 1

-----------------------------------------------------------------------------
(* Specification of parsePackageId on identifier strings that begin with '@' *)

MaxIdLen == 5               \* characters of an identifier after its leading '@'

\* the strings that begin with '@' and hold a further '@' followed by a version
ScopedIds ==
    {id \in {<<"@">> \o s : s \in Strings({"s", "/", "@", "1"}, MaxIdLen)} :
        /\ LastIndexOf(id, "@") > 0
        /\ LastIndexOf(id, "@") + 1 < Len(id)}

\* the call parsePackageId(packageId)
ParseIdCall ==
    /\ fn.op = "parsePackageId(packageId)"
    /\ fn.pc = "call"
    /\ fn' = [fn EXCEPT !.pc = "done", !.result = ParsePackageId(fn.id)]
    /\ UNCHANGED <<feed, files, dvars, svars, retry, batch>>

ParseIdInit ==
    /\ feed = <<>>
    /\ seqFile = NoSeqFile
    /\ discFile = <<>>
    /\ discNewFile = <<>>
    /\ scanFile = <<>>
    /\ scanNewFile = <<>>
    /\ dpc = "idle"
    /\ state = IdleState
    /\ newDiscoveredPackages = <<>>
    /\ packages = <<>>
    /\ drun = IdleRun
    /\ dhist = [quiet |-> FALSE, plain |-> FALSE, recorded |-> {}, threw |-> FALSE,
               failed |-> FALSE]
    /\ spc = "idle"
    /\ pending = <<>>
    /\ srun = IdleScanRun
    /\ shist = NoScanHist
    /\ retry = NoRetry
    /\ batch = NoBatch
    /\ \E id \in ScopedIds :
          fn = [op |-> "parsePackageId(packageId)", pc |-> "call", id |-> id,
                result |-> [name |-> Missing, version |-> Missing]]

ParseIdNext == ParseIdCall

ParseIdSpec == ParseIdInit /\ [][ParseIdNext]_vars

\* C35: for every identifier that begins with '@' and carries a version, parsePackageId
\* returns as name everything before the last '@' and as version everything after it,
\* also when the identifier holds more than two '@'.
C35_SplitAtLastAt ==
    (fn.op = "parsePackageId(packageId)" /\ fn.pc = "done") =>
        /\ fn.result.name = SubSeq(fn.id, 1, LastIndexOf(fn.id, "@"))
        /\ fn.result.version = SubSeq(fn.id, LastIndexOf(fn.id, "@") + 2, Len(fn.id))

-----------------------------------------------------------------------------
(* Claims about the identifiers a discovery run adds, checked under Spec *)

\* C36: every identifier a discovery run adds to the discovered set is name@version
\* with a non-empty name and a version that is neither empty nor 'undefined', and an
\* entry that resolves to a missing or 'undefined' version adds nothing.
C36_WellFormedIdentifiers ==
    dpc \in {"walked", "saved"} =>
        /\ state.discoveredPackages \ drun.loaded = Elems(newDiscoveredPackages)
        /\ Len(newDiscoveredPackages) = Len(packages)
        /\ \A i \in DOMAIN newDiscoveredPackages :
              /\ newDiscoveredPackages[i] = Format(packages[i].name, packages[i].version)
              /\ packages[i].name # Missing
              /\ packages[i].version # Missing
              /\ packages[i].version # Undefined
              /\ ~ \E name \in Names : newDiscoveredPackages[i] = Format(name, Undefined)
              /\ ~ \E name \in Names : newDiscoveredPackages[i] = Format(name, Missing)
        /\ Len(newDiscoveredPackages) + drun.dropped <= drun.walked

C36_Witness ==
    /\ dpc = "saved"
    /\ drun.dropped > 0
    /\ Len(newDiscoveredPackages) > 0
    /\ seqFile.value = state.lastSequence

-----------------------------------------------------------------------------
(* Claims about a failed request, checked under PhaseSpec *)

\* C37: a discovery run whose change-feed request fails (dhist.failed) returns an
\* empty list without raising, and leaves the durable cursor and the durable discovered
\* set at the values it loaded.
C37_FailedRequestChangesNothing ==
    [][(dpc = "idle" /\ dhist'.failed /\ UNCHANGED svars) =>
          /\ dpc' = "idle"
          /\ ~dhist'.threw
          /\ packages' = <<>>
          /\ seqFile'.exists
          /\ \E curOk \in BOOLEAN :
                seqFile'.value = LoadLastSequence(seqFile, curOk, TRUE).value
          /\ seqFile.exists => seqFile'.value = seqFile.value
          /\ Elems(LoadDiscoveredPackages(discFile' \o discNewFile'))
                = Elems(LoadDiscoveredPackages(discFile \o discNewFile))
          /\ UNCHANGED <<discFile, discNewFile>>]_vars

\* a run has failed at its request after an earlier run had committed a page
C37_Witness ==
    /\ dpc = "idle"
    /\ dhist.failed
    /\ dhist.recorded # {}
    /\ seqFile.exists
    /\ seqFile.value > 0
    /\ discNewFile # <<>>

-----------------------------------------------------------------------------
(* Claims about the stop at the cap, checked under Spec *)

-----------------------------------------------------------------------------
(* Specification of the scan-pending command on identifiers that hold a further '@' *)

\* a discovered line whose version part holds an '@': @s/b@1@2
IdB1At == Format(IdB1, V2)

\* an unscoped line of the same kind: a@1@2
IdA1At == Format(IdA1, V2)

ScanIdInit ==
    /\ feed = <<>>
    /\ seqFile \in {NoSeqFile, SeqFileOf(0)}
    /\ discFile \in Arrangements({IdA1, IdB1, IdA1At, IdB1At}, MaxLines)
    /\ discNewFile = <<>>
    /\ scanFile \in Arrangements({IdA1}, 1)
    /\ scanNewFile = <<>>
    /\ dpc = "idle"
    /\ state = IdleState
    /\ newDiscoveredPackages = <<>>
    /\ packages = <<>>
    /\ drun = IdleRun
    /\ dhist = [quiet |-> FALSE, plain |-> FALSE, recorded |-> {}, threw |-> FALSE,
               failed |-> FALSE]
    /\ spc = "idle"
    /\ pending = <<>>
    /\ srun = IdleScanRun
    /\ shist = NoScanHist
    /\ retry = NoRetry
    /\ fn = NoCall
    /\ batch = NoBatch

ScanIdSpec == ScanIdInit /\ [][ScanNext]_vars

\* C39: the identifier markPackagesScanned writes for a PackageInfo that getPendingScans
\* produced is the discovered identifier it was produced from: the identifiers written
\* are pending discovered identifiers, one for each PackageInfo.
C39_WrittenIdIsDiscoveredId ==
    spc \in {"scanning", "scanned"} =>
        /\ Elems(FullPackageIds(pending)) \subseteq srun.loadedDiscovered \ srun.loadedScanned
        /\ Cardinality(Elems(FullPackageIds(pending))) = Len(pending)

-----------------------------------------------------------------------------
(* Claims about the return of markPackagesScannedWithRetry, checked under RetrySpec *)

\* C40: for every maxRetries, markPackagesScannedWithRetry returns normally only if one
\* invocation of markPackagesScanned succeeded, and then the identifiers of its packages
\* are in the delta file.
C40_ReturnsOnlyAfterCommit ==
    retry.pc = "returned" =>
        /\ \E k \in DOMAIN retry.outcomes : retry.outcomes[k] = "ok"
        /\ Len(retry.packages) > 0 => scanNewFile = FullPackageIds(retry.packages)

====
